---------------------------- MODULE Spec2Model ----------------------------
(***************************************************************************)
(* A model of tracecat's workflow synchronisation service                  *)
(* (tracecat/workflow/store/sync.py): WorkflowSyncService.pull with its    *)
(* definition parser, and WorkflowSyncService.push with its GitHub and     *)
(* GitLab adapters acting on one remote repository.                        *)
(***************************************************************************)
EXTENDS Integers, Sequences, FiniteSets, TLC

(***************************************************************************)
(* Bounds of the model.                                                    *)
(***************************************************************************)
\* The longest content map a fetch returns.
MaxFiles == 3

\* Python's None.
None == "None"

(***************************************************************************)
(* PULL: the state of one call of WorkflowSyncService.pull.                *)
(***************************************************************************)
VARIABLES
    pull_pc,        \* where the call stands: idle, fetch, parse, decide, import, except, done
    pull_options,   \* the options argument: None, or [commit_sha, dry_run]
    pull_provider,  \* what _detect_provider answers for the url
    repo_content,   \* the content map the fetch returned, in iteration order
    parsed,         \* what _parse_workflow_definitions did: its status and both lists
    pull_exc,       \* the exception raised inside pull's try block, or None
    pull_result,    \* the PullResult returned to the caller, or None
    pull_raised,    \* TRUE when an exception left pull
    pull_calls,     \* the collaborator calls this pull made, in order
    remote,         \* what the provider answers to the requests of the fetch
    fetched,        \* what _fetch_repository_content did with these answers
    import_result   \* the PullResult the import collaborator returned

pull_vars == <<pull_pc, pull_options, pull_provider, repo_content, parsed,
               pull_exc, pull_result, pull_raised, pull_calls, remote, fetched,
               import_result>>

(***************************************************************************)
(* The repository push acts on, and the calls of push.                     *)
(***************************************************************************)
VARIABLES
    repo_provider,  \* what _detect_provider answers for the repository's url
    branches,       \* the repository: branch name -> tip commit, 0 when absent
    files,          \* branch name -> the file at path_str: [content, sha]
    pull_requests,  \* the open pull/merge requests: [id, head, base]
    commits,        \* the number of commits made by file writes
    push,           \* caller -> the locals of its call of push
    pushes,         \* the number of calls of push so far
    branch_creations,        \* branches created by accepted requests
    duplicate_branch_errors, \* branch creations rejected: the branch exists
    request_urls    \* base branch -> the request URLs pushes found or created

push_vars == <<repo_provider, branches, files, pull_requests, commits, push,
               pushes, branch_creations, duplicate_branch_errors, request_urls>>

(***************************************************************************)
(* The other operations: provider detection and the dispatch of the three  *)
(* entry points, list_commits, the Git URL forms, and the GitLab           *)
(* credential store.                                                       *)
(***************************************************************************)
VARIABLES
    url_host,       \* url.host of the GitUrl an entry point is called with
    dispatched,     \* entry point -> the adapter it called and the warnings logged
    repo_commits,   \* the commits of the branch as the provider lists them
    repo_tags,      \* the tags of the repository as the provider lists them
    listed,         \* the last call of list_commits: its limit and its outcome
    git_url,        \* a GitUrl value
    url_text,       \* a URL string
    url_result,     \* what the URL regexes and the parser make of url_text
    secrets,        \* the organization's secrets, as the secrets service holds them
    next_id,        \* the id the secrets service gives the next secret it creates
    cred,           \* caller -> its call of the GitLab credential service
    cred_calls,     \* the calls of the credential service made so far
    scenario,       \* the repository and the answers both push adapters are run on
    adapter,        \* provider -> the run of its push adapter on the scenario
    clients         \* fetch, list_commits -> the provider client of the last call

detect_vars == <<url_host, dispatched>>

list_vars == <<repo_commits, repo_tags, listed>>

url_vars == <<git_url, url_text, url_result>>

cred_vars == <<secrets, next_id, cred, cred_calls>>

adapter_vars == <<scenario, adapter>>

aux_vars == <<adapter_vars>>

ext_vars == <<detect_vars, list_vars, url_vars, cred_vars, aux_vars>>

client_vars == <<clients>>

vars == <<pull_vars, push_vars, ext_vars, client_vars>>

\* VCSProvider
GITHUB == "github"
GITLAB == "gitlab"
VCSProvider == {GITHUB, GITLAB}

\* The exception classes pull's handlers tell apart.
GitHubAppError == "GitHubAppError"
GitLabError == "GitLabError"
OtherException == "Exception"

\* The provider error the adapter of a provider raises.
ProviderError(provider) ==
    IF provider = GITLAB THEN GitLabError ELSE GitHubAppError

\* The status of a GithubException, and the response code a GitlabError's
\* text, "<code>: <message>", begins with.
NotFound == 404

\* e.status == 404 (GitHub); "404" in str(e) (GitLab), for the provider's
\* messages, which hold no "404" of their own.
IsNotFound(status) == status = NotFound

(***************************************************************************)
(* A fetched file, by what yaml.safe_load and                              *)
(* RemoteWorkflowDefinition.model_validate do with its text:               *)
(*   yaml:       "error"   safe_load raises yaml.YAMLError                 *)
(*               "falsy"   the document is empty, null, {} or []           *)
(*               "nondict" a truthy list or scalar                         *)
(*               "dict"    a non-empty mapping                             *)
(*   definition: the mapping's 'definition' entry: "absent", "null",       *)
(*               "scalar", or "mapping" (with title, a string or None)     *)
(*   validate:   "ok", "invalid" (pydantic ValidationError) or "crash"     *)
(*               (any other exception out of model_validate)               *)
(***************************************************************************)
File(y, d, t, v) == [yaml |-> y, definition |-> d, title |-> t, validate |-> v]

YamlError       == File("error",   "absent",  None,    "invalid")
EmptyYaml       == File("falsy",   "absent",  None,    "invalid")
NonMapping      == File("nondict", "absent",  None,    "invalid")
NoDefinition    == File("dict",    "absent",  None,    "invalid")
NullDefinition  == File("dict",    "null",    None,    "invalid")
ScalarDefinition == File("dict",   "scalar",  None,    "invalid")
InvalidTitled   == File("dict",    "mapping", "title", "invalid")
InvalidUntitled == File("dict",    "mapping", None,    "invalid")
ValidatorCrash  == File("dict",    "mapping", "title", "crash")
ValidWorkflow   == File("dict",    "mapping", "title", "ok")

FileKinds == {YamlError, EmptyYaml, NonMapping, NoDefinition, NullDefinition,
              ScalarDefinition, InvalidTitled, InvalidUntitled, ValidatorCrash,
              ValidWorkflow}

\* Content maps: file i of the sequence has the path i.
ContentMaps == UNION {[1..n -> FileKinds] : n \in 0..MaxFiles}

PullDiagnostic(path, title, type, msg) ==
    [workflow_path |-> path, workflow_title |-> title, error_type |-> type,
     message |-> msg]

\* dict.get("definition", {}).get("title") of the ValidationError handler:
\* "AttributeError" when the 'definition' entry is not a mapping.
TitleOf(file) ==
    IF file.yaml # "dict" THEN None
    ELSE CASE file.definition = "absent"  -> None
           [] file.definition = "mapping" -> file.title
           [] OTHER                       -> "AttributeError"

\* One iteration of the parser's loop: a definition, a diagnostic, or an
\* exception that leaves the loop.
ParseOne(path, file) ==
    CASE file.yaml = "error" ->
            [kind |-> "diagnostic",
             value |-> PullDiagnostic(path, None, "parse", "YAML parsing error")]
      [] file.yaml = "falsy" ->
            [kind |-> "diagnostic",
             value |-> PullDiagnostic(path, None, "parse", "Empty or invalid YAML file")]
      [] file.validate = "ok" ->
            [kind |-> "definition", value |-> path]
      [] file.validate = "invalid" ->
            IF TitleOf(file) = "AttributeError"
            THEN [kind |-> "raise", value |-> OtherException]
            ELSE [kind |-> "diagnostic",
                  value |-> PullDiagnostic(path, TitleOf(file), "validation",
                                           "Validation error")]
      [] OTHER ->
            [kind |-> "diagnostic",
             value |-> PullDiagnostic(path, None, "parse", "Unexpected parsing error")]

RECURSIVE ParseFrom(_, _, _, _)
ParseFrom(content_map, i, remote_workflows, diagnostics) ==
    IF i > Len(content_map)
    THEN [status |-> "returned", remote_workflows |-> remote_workflows,
          diagnostics |-> diagnostics]
    ELSE LET one == ParseOne(i, content_map[i])
         IN CASE one.kind = "definition" ->
                    ParseFrom(content_map, i + 1,
                              Append(remote_workflows, one.value), diagnostics)
              [] one.kind = "diagnostic" ->
                    ParseFrom(content_map, i + 1, remote_workflows,
                              Append(diagnostics, one.value))
              [] OTHER ->
                    [status |-> "raised", remote_workflows |-> remote_workflows,
                     diagnostics |-> diagnostics]

\* A parser that hands out its diagnostics last first.
ParseWorkflowDefinitionsLastFirst(content_map) ==
    LET r == ParseFrom(content_map, 1, <<>>, <<>>)
        d == r.diagnostics
    IN [r EXCEPT !.diagnostics = [i \in DOMAIN d |-> d[Len(d) + 1 - i]]]

\* _parse_workflow_definitions
ParseWorkflowDefinitions(content_map) == ParseFrom(content_map, 1, <<>>, <<>>)

NotParsed == [status |-> "none", remote_workflows |-> <<>>, diagnostics |-> <<>>]

PullResult(ok, sha, found, imported, diags, msg) ==
    [success |-> ok, commit_sha |-> sha, workflows_found |-> found,
     workflows_imported |-> imported, diagnostics |-> diags, message |-> msg]

\* The options argument: absent (None), or PullOptions with a commit_sha that
\* is None, empty or a SHA.
NoOptions == [present |-> FALSE, commit_sha |-> None, dry_run |-> FALSE]

PullOptionsSet ==
    {NoOptions} \cup
    [present : {TRUE}, commit_sha : {None, "", "sha1"}, dry_run : BOOLEAN]

\* A check that takes an empty commit_sha for a commit.
MissingCommitShaNoneOnly(options) ==
    ~options.present \/ options.commit_sha = None

\* not options or not options.commit_sha
MissingCommitSha(options) ==
    ~options.present \/ options.commit_sha \in {None, ""}

\* A collaborator call pull makes, with the arguments of an import.
Call(name, remote_workflows, commit_sha) ==
    [call |-> name, remote_workflows |-> remote_workflows, commit_sha |-> commit_sha]

\* No PullResult (yet).
NoResult == PullResult(FALSE, None, 0, 0, <<>>, None)

(***************************************************************************)
(* The fetch.  An item of the listing of workflows/ is a directory ("dir"  *)
(* for GitHub, "tree" for GitLab) or not, and the read of its              *)
(* definition.yml finds                                                    *)
(*   "ok"          the file, whose text decodes                            *)
(*   "absent"      no such file: 404                                       *)
(*   "directory"   a directory of that name: a list (GitHub), 404 (GitLab) *)
(*   "error"       any other error of the provider                         *)
(*   "undecodable" the file, whose content is not base64 of UTF-8 text     *)
(***************************************************************************)
Item(type, definition, file) ==
    [type |-> type, definition |-> definition, file |-> file]

\* The answers of the provider: to the client's authentication, to the read
\* of the repository and to the read of workflows (their status), whether
\* workflows is a directory, and the items listed in it.
Remote(client, repo, workflows, is_dir, items) ==
    [client |-> client, repo |-> repo, workflows |-> workflows,
     is_dir |-> is_dir, items |-> items]

NoRemote == Remote(None, 0, 0, FALSE, <<>>)

FetchResult(status, exc, content_map, paths, warnings) ==
    [status |-> status, exc |-> exc, content_map |-> content_map,
     paths |-> paths, warnings |-> warnings]

NotFetched == FetchResult("none", None, <<>>, <<>>, 0)

\* for item in workflows_contents / workflows_items: file i of the content map
\* is the definition.yml of item paths[i].
RECURSIVE FetchFrom(_, _, _, _, _)
FetchFrom(items, i, content_map, paths, warnings) ==
    IF i > Len(items)
    THEN FetchResult("returned", None, content_map, paths, warnings)
    ELSE LET item == items[i]
         IN IF item.type # "dir"
            THEN FetchFrom(items, i + 1, content_map, paths, warnings)
            ELSE CASE item.definition = "ok" ->
                        FetchFrom(items, i + 1, Append(content_map, item.file),
                                  Append(paths, i), warnings)
                   [] item.definition \in {"absent", "directory"} ->
                        FetchFrom(items, i + 1, content_map, paths, warnings)
                   [] item.definition = "error" ->
                        FetchFrom(items, i + 1, content_map, paths, warnings + 1)
                   [] OTHER ->
                        FetchResult("raised", OtherException, content_map, paths,
                                    warnings)

\* A fetch without the handler of the 404 of the listing.
FetchRepositoryContentNo404(provider, answers) ==
    IF answers.client # "ok" \/ answers.repo # 200 \/ answers.workflows = 500
          \/ IsNotFound(answers.workflows)
    THEN FetchResult("raised", ProviderError(provider), <<>>, <<>>, 0)
    ELSE IF ~answers.is_dir
    THEN FetchResult("returned", None, <<>>, <<>>, 0)
    ELSE FetchFrom(answers.items, 1, <<>>, <<>>, 0)

\* _fetch_repository_content_github / _fetch_repository_content_gitlab.
\* A workflows that is a file is no list of items (GitHub), and its tree has
\* no items (GitLab).
FetchRepositoryContent(provider, answers) ==
    IF answers.client # "ok" \/ answers.repo # 200 \/ answers.workflows = 500
    THEN FetchResult("raised", ProviderError(provider), <<>>, <<>>, 0)
    ELSE IF IsNotFound(answers.workflows) \/ ~answers.is_dir
    THEN FetchResult("returned", None, <<>>, <<>>, 0)
    ELSE FetchFrom(answers.items, 1, <<>>, <<>>, 0)

\* The answers to a fetch that fails before it reads a file, or finds no
\* directory workflows/.
FailedRemotes ==
    {Remote("error", 0, 0, FALSE, <<>>), Remote("ok", 500, 0, FALSE, <<>>),
     Remote("ok", 200, 500, FALSE, <<>>), Remote("ok", 200, NotFound, FALSE, <<>>),
     Remote("ok", 200, 200, FALSE, <<>>)}

\* The answers pull is run with: every file is read, and is of any kind (or
\* the one file there is does not decode).
PullRemotes ==
    FailedRemotes \cup
    {Remote("ok", 200, 200, TRUE, <<Item("dir", "undecodable", EmptyYaml)>>)} \cup
    {Remote("ok", 200, 200, TRUE,
            [i \in DOMAIN content |-> Item("dir", "ok", content[i])]) :
        content \in ContentMaps}

\* The answers the fetch is run with: items of every kind, whose files are a
\* workflow or malformed YAML.
FetchRemotes ==
    FailedRemotes \cup
    LET kinds == {Item("file", "absent", EmptyYaml)}
                   \cup {Item("dir", d, EmptyYaml) :
                            d \in {"absent", "directory", "error", "undecodable"}}
                   \cup {Item("dir", "ok", f) : f \in {ValidWorkflow, YamlError}}
    IN {Remote("ok", 200, 200, TRUE, items) :
           items \in UNION {[1..n -> kinds] : n \in 0..MaxFiles}}

\* No client of the provider was asked for.
NoClient == [client |-> None, closes |-> 0]

\* A client that is closed only when the adapter returns.
ClientAfterReturnOnly(provider, obtained, status) ==
    IF ~obtained THEN NoClient
    ELSE IF provider = GITHUB /\ status = "returned"
    THEN [client |-> "closed", closes |-> 1]
    ELSE [client |-> "open", closes |-> 0]

\* The client of an adapter that has ended with status: the GitHub adapters
\* hold the client in a try block whose finally clause closes it, the GitLab
\* adapters close nothing.
ClientAfter(provider, obtained, status) ==
    IF ~obtained THEN NoClient
    ELSE IF provider = GITHUB
    THEN [client |-> "closed", closes |-> 1]
    ELSE [client |-> "open", closes |-> 0]

PullInit ==
    /\ pull_pc = "idle"
    /\ pull_options = NoOptions
    /\ pull_provider = GITHUB
    /\ repo_content = <<>>
    /\ parsed = NotParsed
    /\ pull_exc = None
    /\ pull_result = NoResult
    /\ pull_raised = FALSE
    /\ pull_calls = <<>>
    /\ remote = NoRemote
    /\ fetched = NotFetched
    /\ import_result = NoResult

\* pull is called: the commit_sha check, before the try block.
PullCall(options, provider) ==
    /\ pull_pc \in {"idle", "done"}
    /\ pull_options' = options
    /\ pull_provider' = provider
    /\ repo_content' = <<>>
    /\ parsed' = NotParsed
    /\ pull_exc' = None
    /\ pull_raised' = FALSE
    /\ pull_calls' = <<>>
    /\ remote' = NoRemote
    /\ fetched' = NotFetched
    /\ import_result' = NoResult
    /\ clients' = [clients EXCEPT !.fetch = NoClient]
    /\ UNCHANGED <<push_vars, ext_vars>>
    /\ IF MissingCommitSha(options)
       THEN /\ pull_result' =
                 PullResult(FALSE, "", 0, 0,
                            <<PullDiagnostic("", None, "validation",
                                             "commit_sha is required in pull options")>>,
                            "commit_sha is required")
            /\ pull_pc' = "done"
       ELSE /\ pull_result' = NoResult
            /\ pull_pc' = "fetch"

\* _fetch_repository_content: the credential lookup and client of the detected
\* provider, then the reads of the repository.
PullFetch(answers) ==
    /\ pull_pc = "fetch"
    /\ remote' = answers
    /\ fetched' = FetchRepositoryContent(pull_provider, answers)
    /\ pull_calls' = pull_calls \o
         (IF answers.client # "ok"
          THEN <<Call("credentials", <<>>, None)>>
          ELSE <<Call("credentials", <<>>, None), Call("client", <<>>, None),
                 Call("fetch", <<>>, pull_options.commit_sha)>>)
    /\ IF fetched'.status = "returned"
       THEN /\ repo_content' = fetched'.content_map
            /\ pull_exc' = None
            /\ pull_pc' = "parse"
       ELSE /\ repo_content' = <<>>
            /\ pull_exc' = fetched'.exc
            /\ pull_pc' = "except"
    /\ clients' = [clients EXCEPT
                     !.fetch = ClientAfter(pull_provider, answers.client = "ok",
                                           fetched'.status)]
    /\ UNCHANGED <<pull_options, pull_provider, parsed, pull_result,
                   pull_raised,
                   import_result, push_vars, ext_vars>>

\* remote_workflows, parse_diagnostics = await self._parse_workflow_definitions(...)
PullParse ==
    /\ pull_pc = "parse"
    /\ parsed' = ParseWorkflowDefinitions(repo_content)
    /\ IF parsed'.status = "raised"
       THEN pull_exc' = OtherException /\ pull_pc' = "except"
       ELSE pull_exc' = None /\ pull_pc' = "decide"
    /\ UNCHANGED <<pull_options, pull_provider, repo_content, pull_result,
                   pull_raised, pull_calls, remote, fetched, import_result,
                   push_vars, ext_vars, client_vars>>

\* A decision that takes no notice of dry_run.
PullDecideNoDryRun ==
    /\ pull_pc = "decide"
    /\ IF parsed.diagnostics # <<>>
       THEN /\ pull_result' =
                 PullResult(FALSE, pull_options.commit_sha, Len(repo_content), 0,
                            parsed.diagnostics, "Failed to parse workflow definitions")
            /\ pull_pc' = "done"
       ELSE /\ pull_result' = NoResult
            /\ pull_pc' = "import"
    /\ UNCHANGED <<pull_options, pull_provider, repo_content, parsed, pull_exc,
                   pull_raised, pull_calls, remote, fetched, import_result,
                   push_vars, ext_vars, client_vars>>

\* After parsing: abort on diagnostics, or report a dry run, or go on to import.
PullDecide ==
    /\ pull_pc = "decide"
    /\ IF parsed.diagnostics # <<>>
       THEN /\ pull_result' =
                 PullResult(FALSE, pull_options.commit_sha, Len(repo_content), 0,
                            parsed.diagnostics, "Failed to parse workflow definitions")
            /\ pull_pc' = "done"
       ELSE IF pull_options.dry_run
       THEN /\ pull_result' =
                 PullResult(TRUE, pull_options.commit_sha,
                            Len(parsed.remote_workflows), 0, <<>>,
                            "Dry run completed")
            /\ pull_pc' = "done"
       ELSE /\ pull_result' = NoResult
            /\ pull_pc' = "import"
    /\ UNCHANGED <<pull_options, pull_provider, repo_content, parsed, pull_exc,
                   pull_raised, pull_calls, remote, fetched, import_result,
                   push_vars, ext_vars, client_vars>>

\* An import whose result pull counts again before it returns it.
PullImportRecounted ==
    /\ pull_pc = "import"
    /\ pull_calls' = Append(pull_calls,
                            Call("import", parsed.remote_workflows,
                                 pull_options.commit_sha))
    /\ \E outcome \in {"imported", "rejected", "crash"} :
         /\ import_result' =
              CASE outcome = "imported" ->
                     PullResult(TRUE, pull_options.commit_sha,
                                Len(parsed.remote_workflows),
                                Len(parsed.remote_workflows), <<>>, "Imported")
                [] outcome = "rejected" ->
                     PullResult(FALSE, pull_options.commit_sha,
                                Len(parsed.remote_workflows), 0,
                                <<PullDiagnostic("", None, "validation", "Import failed")>>,
                                "Import failed")
                [] OTHER -> NoResult
         /\ pull_result' =
              IF outcome = "crash" THEN NoResult
              ELSE [import_result' EXCEPT
                      !.workflows_imported = Len(parsed.remote_workflows)]
         /\ pull_exc' = IF outcome = "crash" THEN OtherException ELSE None
         /\ pull_pc' = IF outcome = "crash" THEN "except" ELSE "done"
    /\ UNCHANGED <<pull_options, pull_provider, repo_content, parsed,
                   pull_raised,
                   remote, fetched, push_vars, ext_vars, client_vars>>

\* import_service.import_workflows_atomic(remote_workflows, commit_sha): the
\* collaborator's PullResult is returned as it is, and its exception is raised.
PullImport ==
    /\ pull_pc = "import"
    /\ pull_calls' = Append(pull_calls,
                            Call("import", parsed.remote_workflows,
                                 pull_options.commit_sha))
    /\ \E outcome \in {"imported", "rejected", "crash"} :
         /\ import_result' =
              CASE outcome = "imported" ->
                     PullResult(TRUE, pull_options.commit_sha,
                                Len(parsed.remote_workflows),
                                Len(parsed.remote_workflows), <<>>, "Imported")
                [] outcome = "rejected" ->
                     PullResult(FALSE, pull_options.commit_sha,
                                Len(parsed.remote_workflows), 0,
                                <<PullDiagnostic("", None, "validation", "Import failed")>>,
                                "Import failed")
                [] OTHER -> NoResult
         /\ pull_result' = import_result'
         /\ pull_exc' = IF outcome = "crash" THEN OtherException ELSE None
         /\ pull_pc' = IF outcome = "crash" THEN "except" ELSE "done"
    /\ UNCHANGED <<pull_options, pull_provider, repo_content, parsed,
                   pull_raised,
                   remote, fetched, push_vars, ext_vars, client_vars>>

\* The handlers without the last clause, except Exception.
HandlerForProviderErrorsOnly(exc) ==
    CASE exc = GitHubAppError -> "github"
      [] exc = GitLabError    -> "gitlab"
      [] OTHER                -> None

\* The error_type of the except clause that takes exception exc, or None when
\* no clause of pull takes it.
HandlerFor(exc) ==
    CASE exc = GitHubAppError -> "github"
      [] exc = GitLabError    -> "gitlab"
      [] OTHER                -> "system"

\* Handlers that report the files fetched before the exception.
PullExceptCountsFiles ==
    /\ pull_pc = "except"
    /\ pull_raised' = FALSE
    /\ pull_result' =
         PullResult(FALSE, pull_options.commit_sha, Len(repo_content), 0,
                    <<PullDiagnostic("", None, HandlerFor(pull_exc), pull_exc)>>,
                    HandlerFor(pull_exc))
    /\ pull_pc' = "done"
    /\ UNCHANGED <<pull_options, pull_provider, repo_content, parsed, pull_exc,
                   pull_calls, remote, fetched, import_result,
                   push_vars, ext_vars, client_vars>>

\* The except clauses of pull's try block.
PullExcept ==
    /\ pull_pc = "except"
    /\ LET type == HandlerFor(pull_exc)
       IN IF type = None
          THEN /\ pull_raised' = TRUE
               /\ pull_result' = NoResult
          ELSE /\ pull_raised' = FALSE
               /\ pull_result' =
                    PullResult(FALSE, pull_options.commit_sha, 0, 0,
                               <<PullDiagnostic("", None, type, pull_exc)>>,
                               type)
    /\ pull_pc' = "done"
    /\ UNCHANGED <<pull_options, pull_provider, repo_content, parsed, pull_exc,
                   pull_calls, remote, fetched, import_result,
                   push_vars, ext_vars, client_vars>>

PullNext ==
    \/ \E options \in PullOptionsSet, provider \in VCSProvider :
         PullCall(options, provider)
    \/ /\ pull_pc = "fetch"
       /\ \E answers \in PullRemotes : PullFetch(answers)
    \/ PullParse
    \/ PullDecide
    \/ PullImport
    \/ PullExcept

\* pull, with the answers of the provider item by item.
FetchNext ==
    \/ \E options \in PullOptionsSet, provider \in VCSProvider :
         PullCall(options, provider)
    \/ /\ pull_pc = "fetch"
       /\ \E answers \in FetchRemotes : PullFetch(answers)
    \/ PullParse
    \/ PullDecide
    \/ PullImport
    \/ PullExcept

(***************************************************************************)
(* PUSH: one remote repository, and the calls of WorkflowSyncService.push  *)
(* that act on it.  Every await of an adapter is one step: a request to    *)
(* the provider, which answers with a status.                              *)
(***************************************************************************)
\* The calls of push in one behaviour, and the objects in one call.
MaxPushes == 3
MaxObjects == 2

Callers == {1, 2}

\* obj.data.id of the pushed workflow.
WorkflowId == "wf1"

\* branch_name = f"tracecat-sync/{workflow_id}"
BranchName(workflow_id) == "tracecat-sync/" \o workflow_id

\* repo.default_branch, and the branches options.branch and url.ref may name.
DefaultBranch == "main"
BaseBranches == {"main", "dev", "rel"}
BranchNames == BaseBranches \cup {BranchName(WorkflowId)}

NoFile == [content |-> 0, sha |-> 0]

CommitInfo(sha, ref) == [sha |-> sha, ref |-> ref]

IdlePush ==
    [pc |-> "idle", objects |-> 1, detected |-> FALSE, branch |-> None, ref |-> None, create_pr |-> FALSE,
     payload |-> 0, base_branch_name |-> None, base_sha |-> 0,
     branch_name |-> None, file_sha |-> 0, commit_sha |-> 0, pr_url |-> 0,
     wrote |-> FALSE, write_error |-> 0, created_branch |-> FALSE,
     created_pr |-> FALSE, saw_absent |-> FALSE, write_no |-> 0,
     outcome |-> None, exc |-> None, result |-> CommitInfo(0, None),
     client |-> None, closes |-> 0, calls |-> 0]

PushInit ==
    /\ repo_provider \in VCSProvider
    /\ \E rel \in {0, 3} :
         branches = [b \in BranchNames |->
                       CASE b = "main" -> 1
                         [] b = "dev"  -> 2
                         [] b = "rel"  -> rel
                         [] OTHER      -> 0]
    /\ files = [b \in BranchNames |->
                  IF b = "dev" THEN [content |-> 100, sha |-> 100] ELSE NoFile]
    /\ pull_requests = {}
    /\ commits = 0
    /\ push = [p \in Callers |-> IdlePush]
    /\ pushes = 0
    /\ branch_creations = 0
    /\ duplicate_branch_errors = 0
    /\ request_urls = [b \in BaseBranches |-> {}]

\* gh.close() in the finally clause of _push_github; _push_gitlab closes nothing.
CloseClient(r) ==
    IF repo_provider = GITHUB /\ r.client = "open"
    THEN [r EXCEPT !.client = "closed", !.closes = @ + 1]
    ELSE r

\* The call ends with exception exc.
Raised(r, exc) ==
    CloseClient([r EXCEPT !.pc = "done", !.outcome = "raised", !.exc = exc])

\* except GithubException / except GitlabError around the adapter's body:
\* the provider's exception becomes the adapter's error.
RaisedProviderError(r) == Raised(r, ProviderError(repo_provider))

\* A return that names the base branch as ref.
ReturnedBaseRef(r) ==
    CloseClient([r EXCEPT !.pc = "done", !.outcome = "returned",
                          !.result = CommitInfo(r.commit_sha, r.base_branch_name)])

\* return CommitInfo(sha=commit_sha, ref=branch_name)
Returned(r) ==
    CloseClient([r EXCEPT !.pc = "done", !.outcome = "returned",
                          !.result = CommitInfo(r.commit_sha, r.branch_name)])

Requested(r) == [r EXCEPT !.calls = @ + 1]

\* A check that lets an empty sequence of objects through.
MoreThanOneObject(n) == n > 1

\* len(objects) != 1
NotOneObject(n) == n # 1

\* push is called: the check of the number of objects, then the dispatch.
PushCall(p, n, branch, ref, create_pr) ==
    /\ push[p].pc \in {"idle", "done"}
    /\ pushes < MaxPushes
    /\ pushes' = pushes + 1
    /\ IF NotOneObject(n)
       THEN push' = [push EXCEPT ![p] =
                       Raised([IdlePush EXCEPT !.objects = n], "ValueError")]
       ELSE push' = [push EXCEPT ![p] =
                       [IdlePush EXCEPT !.pc = "client", !.objects = n,
                                        !.detected = TRUE, !.branch = branch,
                                        !.ref = ref, !.create_pr = create_pr,
                                        !.payload = pushes + 1]]
    /\ UNCHANGED <<repo_provider, branches, files, pull_requests, commits,
                   branch_creations, duplicate_branch_errors, request_urls,
                   pull_vars, ext_vars, client_vars>>

\* get_github_client_for_repo / get_gitlab_client_for_repo, before the try
\* block: the service's error leaves push as it is.
PushClient(p) ==
    /\ push[p].pc = "client"
    /\ \E ok \in BOOLEAN :
         push' = [push EXCEPT ![p] =
                    IF ok
                    THEN [Requested(@) EXCEPT !.pc = "repo", !.client = "open"]
                    ELSE Raised(Requested(@), ProviderError(repo_provider))]
    /\ UNCHANGED <<repo_provider, branches, files, pull_requests, commits,
                   pushes,
                   branch_creations, duplicate_branch_errors, request_urls,
                   pull_vars, ext_vars, client_vars>>

\* A resolution that takes the ref of the url before options.branch.
BaseBranchNameRefFirst(branch, ref) ==
    IF ref # None THEN ref
    ELSE IF branch # None THEN branch
    ELSE DefaultBranch

\* options.branch or url.ref or repo.default_branch
BaseBranchName(branch, ref) ==
    IF branch # None THEN branch
    ELSE IF ref # None THEN ref
    ELSE DefaultBranch

\* gh.get_repo / gl.projects.get, then the names of the base and the target
\* branch.  _push_github goes on to read the base branch, _push_gitlab does not.
PushGetRepo(p) ==
    /\ push[p].pc = "repo"
    /\ \E status \in {200, 500} :
         push' = [push EXCEPT ![p] =
                    IF status = 200
                    THEN [Requested(@) EXCEPT
                            !.pc = IF repo_provider = GITHUB THEN "base"
                                   ELSE "check_branch",
                            !.base_branch_name = BaseBranchName(push[p].branch, push[p].ref),
                            !.branch_name = BranchName(WorkflowId)]
                    ELSE RaisedProviderError(Requested(@))]
    /\ UNCHANGED <<repo_provider, branches, files, pull_requests, commits,
                   pushes,
                   branch_creations, duplicate_branch_errors, request_urls,
                   pull_vars, ext_vars, client_vars>>

\* What the provider answers to a read of branch b.
GetBranchStatus(b) == (IF branches[b] = 0 THEN {NotFound} ELSE {200}) \cup {500}

\* base_branch = repo.get_branch(base_branch_name)   (_push_github only)
PushGetBase(p) ==
    /\ push[p].pc = "base"
    /\ \E status \in GetBranchStatus(push[p].base_branch_name) :
         push' = [push EXCEPT ![p] =
                    IF status = 200
                    THEN [Requested(@) EXCEPT
                            !.pc = "check_branch",
                            !.base_sha = branches[push[p].base_branch_name]]
                    ELSE RaisedProviderError(Requested(@))]
    /\ UNCHANGED <<repo_provider, branches, files, pull_requests, commits,
                   pushes,
                   branch_creations, duplicate_branch_errors, request_urls,
                   pull_vars, ext_vars, client_vars>>

\* A branch check that does not reuse the branch it finds.
PushCheckBranchAlwaysCreate(p) ==
    /\ push[p].pc = "check_branch"
    /\ \E status \in GetBranchStatus(push[p].branch_name) :
         push' = [push EXCEPT ![p] =
                    IF status = 200 \/ IsNotFound(status)
                    THEN [Requested(@) EXCEPT !.pc = "create_branch"]
                    ELSE RaisedProviderError(Requested(@))]
    /\ UNCHANGED <<repo_provider, branches, files, pull_requests, commits,
                   pushes,
                   branch_creations, duplicate_branch_errors, request_urls,
                   pull_vars, ext_vars, client_vars>>

\* repo.get_branch(branch_name) / project.branches.get(branch_name): reuse the
\* branch, or create it on a 404.
PushCheckBranch(p) ==
    /\ push[p].pc = "check_branch"
    /\ \E status \in GetBranchStatus(push[p].branch_name) :
         push' = [push EXCEPT ![p] =
                    IF status = 200
                    THEN [Requested(@) EXCEPT !.pc = "get_file"]
                    ELSE IF IsNotFound(status)
                    THEN [Requested(@) EXCEPT !.pc = "create_branch",
                                              !.saw_absent = TRUE]
                    ELSE RaisedProviderError(Requested(@))]
    /\ UNCHANGED <<repo_provider, branches, files, pull_requests, commits,
                   pushes,
                   branch_creations, duplicate_branch_errors, request_urls,
                   pull_vars, ext_vars, client_vars>>

\* The commit a new branch starts at: base_branch.commit.sha as read before
\* (GitHub), the tip of the branch named as ref (GitLab).
NewBranchStart(r) ==
    IF repo_provider = GITHUB THEN r.base_sha ELSE branches[r.base_branch_name]

\* What the provider answers to the creation of the branch of call r: 422 when
\* the branch exists, 400 when the commit or ref to start from does not.
CreateBranchStatus(r) ==
    (IF branches[r.branch_name] # 0 THEN {422}
     ELSE IF NewBranchStart(r) = 0 THEN {400}
     ELSE {201}) \cup {500}

\* A creation whose refusal is passed over: the push goes on to the file.
PushCreateBranchAnyway(p) ==
    /\ push[p].pc = "create_branch"
    /\ \E status \in CreateBranchStatus(push[p]) :
         /\ push' = [push EXCEPT ![p] =
                       IF status = 201
                       THEN [Requested(@) EXCEPT !.pc = "get_file",
                                                 !.created_branch = TRUE]
                       ELSE [Requested(@) EXCEPT !.pc = "get_file"]]
         /\ branches' = IF status = 201
                        THEN [branches EXCEPT ![push[p].branch_name] =
                                                NewBranchStart(push[p])]
                        ELSE branches
         /\ files' = IF status = 201
                     THEN [files EXCEPT ![push[p].branch_name] =
                                          files[push[p].base_branch_name]]
                     ELSE files
         /\ branch_creations' = branch_creations + (IF status = 201 THEN 1 ELSE 0)
         /\ duplicate_branch_errors' =
                duplicate_branch_errors + (IF status = 422 THEN 1 ELSE 0)
    /\ UNCHANGED <<repo_provider, pull_requests, commits, pushes, request_urls,
                   pull_vars, ext_vars, client_vars>>

\* repo.create_git_ref(ref, sha) / project.branches.create({branch, ref})
PushCreateBranch(p) ==
    /\ push[p].pc = "create_branch"
    /\ \E status \in CreateBranchStatus(push[p]) :
         /\ push' = [push EXCEPT ![p] =
                       IF status = 201
                       THEN [Requested(@) EXCEPT !.pc = "get_file",
                                                 !.created_branch = TRUE]
                       ELSE RaisedProviderError(Requested(@))]
         /\ branches' = IF status = 201
                        THEN [branches EXCEPT ![push[p].branch_name] =
                                                NewBranchStart(push[p])]
                        ELSE branches
         /\ files' = IF status = 201
                     THEN [files EXCEPT ![push[p].branch_name] =
                                          files[push[p].base_branch_name]]
                     ELSE files
         /\ branch_creations' = branch_creations + (IF status = 201 THEN 1 ELSE 0)
         /\ duplicate_branch_errors' =
                duplicate_branch_errors + (IF status = 422 THEN 1 ELSE 0)
    /\ UNCHANGED <<repo_provider, pull_requests, commits, pushes, request_urls,
                   pull_vars, ext_vars, client_vars>>

\* What happens to call r when a request of the file write failed with a
\* status other than 404: _push_github's handler has no else branch and goes
\* on, _push_gitlab's handler raises.
FileWriteFailed(r, status) ==
    IF repo_provider = GITHUB
    THEN [r EXCEPT !.pc = "tip", !.write_error = status]
    ELSE RaisedProviderError([r EXCEPT !.write_error = status])

\* What the provider answers to a read of the file on branch b.
GetFileStatus(b) == (IF files[b].content = 0 THEN {NotFound} ELSE {200}) \cup {500}

\* repo.get_contents(file_path, ref=branch_name) /
\* project.files.get(file_path, ref=branch_name)
PushGetFile(p) ==
    /\ push[p].pc = "get_file"
    /\ \E status \in GetFileStatus(push[p].branch_name) :
         push' = [push EXCEPT ![p] =
                    IF status = 200
                    THEN [Requested(@) EXCEPT
                            !.pc = "update_file",
                            !.file_sha = files[push[p].branch_name].sha]
                    ELSE IF IsNotFound(status)
                    THEN [Requested(@) EXCEPT !.pc = "create_file"]
                    ELSE FileWriteFailed(Requested(@), status)]
    /\ UNCHANGED <<repo_provider, branches, files, pull_requests, commits,
                   pushes,
                   branch_creations, duplicate_branch_errors, request_urls,
                   pull_vars, ext_vars, client_vars>>

\* What the provider answers to the update by call r: GitHub's update_file
\* carries the blob sha read before and is refused with 409 when the file has
\* changed since; GitLab's save carries none.
UpdateFileStatus(r) ==
    (IF repo_provider = GITHUB /\ files[r.branch_name].sha # r.file_sha
     THEN {409} ELSE {200}) \cup {500}

\* A request that writes the file: the record keeps its place among the write
\* requests of the calls under way or ended last.
WriteRequested(r) ==
    LET issued == {push[q].write_no : q \in Callers}
    IN [Requested(r) EXCEPT
          !.write_no = 1 + CHOOSE n \in issued : \A m \in issued : m <= n]

\* A commit that writes call r's payload to the base branch.
WriteFileToBase(r) ==
    /\ commits' = commits + 1
    /\ files' = [files EXCEPT ![r.base_branch_name] =
                    [content |-> r.payload, sha |-> 100 + commits + 1]]
    /\ branches' = [branches EXCEPT ![r.base_branch_name] = 100 + commits + 1]

\* The commit that writes call r's payload to its branch.
WriteFile(r) ==
    /\ commits' = commits + 1
    /\ files' = [files EXCEPT ![r.branch_name] =
                    [content |-> r.payload, sha |-> 100 + commits + 1]]
    /\ branches' = [branches EXCEPT ![r.branch_name] = 100 + commits + 1]

\* repo.update_file(path, message, content, sha, branch) /
\* existing_file.save(branch, commit_message)
PushUpdateFile(p) ==
    /\ push[p].pc = "update_file"
    /\ \E status \in UpdateFileStatus(push[p]) :
         /\ push' = [push EXCEPT ![p] =
                       IF status = 200
                       THEN [WriteRequested(@) EXCEPT !.pc = "tip", !.wrote = TRUE]
                       ELSE FileWriteFailed(WriteRequested(@), status)]
         /\ IF status = 200
            THEN WriteFile(push[p])
            ELSE UNCHANGED <<branches, files, commits>>
    /\ UNCHANGED <<repo_provider, pull_requests, pushes, branch_creations,
                   duplicate_branch_errors, request_urls, pull_vars, ext_vars, client_vars>>

\* What the provider answers to the creation of the file on branch b.
CreateFileStatus(b) == (IF files[b].content # 0 THEN {422} ELSE {201}) \cup {500}

\* repo.create_file / project.files.create, inside the handler of the 404: its
\* exception reaches the adapter's outer handler.
PushCreateFile(p) ==
    /\ push[p].pc = "create_file"
    /\ \E status \in CreateFileStatus(push[p].branch_name) :
         /\ push' = [push EXCEPT ![p] =
                       IF status = 201
                       THEN [WriteRequested(@) EXCEPT !.pc = "tip", !.wrote = TRUE]
                       ELSE RaisedProviderError(
                                [WriteRequested(@) EXCEPT !.write_error = status])]
         /\ IF status = 201
            THEN WriteFile(push[p])
            ELSE UNCHANGED <<branches, files, commits>>
    /\ UNCHANGED <<repo_provider, pull_requests, pushes, branch_creations,
                   duplicate_branch_errors, request_urls, pull_vars, ext_vars, client_vars>>

\* branch = repo.get_branch(branch_name); commit_sha = branch.commit.sha, and
\* the return when no pull/merge request is asked for.
PushGetTip(p) ==
    /\ push[p].pc = "tip"
    /\ \E status \in GetBranchStatus(push[p].branch_name) :
         push' = [push EXCEPT ![p] =
                    IF status # 200 THEN RaisedProviderError(Requested(@))
                    ELSE LET r == [Requested(@) EXCEPT
                                     !.commit_sha = branches[push[p].branch_name]]
                         IN IF r.create_pr THEN [r EXCEPT !.pc = "find_pr"]
                            ELSE Returned(r)]
    /\ UNCHANGED <<repo_provider, branches, files, pull_requests, commits,
                   pushes,
                   branch_creations, duplicate_branch_errors, request_urls,
                   pull_vars, ext_vars, client_vars>>

\* A lookup whose head does not match the head the requests were opened with.
OpenRequestsOfOtherHead(head, base) ==
    {pr \in pull_requests : pr.head = "org:" \o head /\ pr.base = base}

\* The open requests from head into base.
OpenRequests(head, base) ==
    {pr \in pull_requests : pr.head = head /\ pr.base = base}

\* existing_pr_list[0] / existing_mrs[0]: the provider lists the newest first.
FirstRequest(prs) == CHOOSE pr \in prs : \A other \in prs : other.id <= pr.id

\* A lookup whose result is not used: a request is created in any case.
PushFindRequestNoReuse(p) ==
    /\ push[p].pc = "find_pr"
    /\ \E status \in {200, 500} :
         push' = [push EXCEPT ![p] =
                    IF status # 200 THEN Returned(Requested(@))
                    ELSE [Requested(@) EXCEPT !.pc = "workspace"]]
    /\ UNCHANGED <<repo_provider, branches, files, pull_requests, commits,
                   pushes,
                   branch_creations, duplicate_branch_errors, request_urls,
                   pull_vars, ext_vars, client_vars>>

\* repo.get_pulls(head, base, state="open") /
\* project.mergerequests.list(source_branch, target_branch, state="opened"):
\* reuse the request found; the provider's error is logged and push returns.
PushFindRequest(p) ==
    /\ push[p].pc = "find_pr"
    /\ \E status \in {200, 500} :
         LET found == OpenRequests(push[p].branch_name, push[p].base_branch_name)
         IN /\ push' = [push EXCEPT ![p] =
                          IF status # 200 THEN Returned(Requested(@))
                          ELSE IF found # {}
                          THEN Returned([Requested(@) EXCEPT
                                           !.pr_url = FirstRequest(found).id])
                          ELSE [Requested(@) EXCEPT !.pc = "workspace"]]
            /\ request_urls' =
                 IF status = 200 /\ found # {}
                 THEN [request_urls EXCEPT ![push[p].base_branch_name] =
                                             @ \cup {FirstRequest(found).id}]
                 ELSE request_urls
    /\ UNCHANGED <<repo_provider, branches, files, pull_requests, commits,
                   pushes,
                   branch_creations, duplicate_branch_errors, pull_vars, ext_vars, client_vars>>

\* workspace = await ws_svc.get_workspace(self.workspace_id); a missing
\* workspace raises TracecatNotFoundError, which no handler of the adapter takes.
PushGetWorkspace(p) ==
    /\ push[p].pc = "workspace"
    /\ \E found \in BOOLEAN :
         push' = [push EXCEPT ![p] =
                    IF found THEN [@ EXCEPT !.pc = "create_pr"]
                    ELSE Raised(@, "TracecatNotFoundError")]
    /\ UNCHANGED <<repo_provider, branches, files, pull_requests, commits,
                   pushes,
                   branch_creations, duplicate_branch_errors, request_urls,
                   pull_vars, ext_vars, client_vars>>

\* repo.create_pull(title, body, head, base) / project.mergerequests.create:
\* the provider's error is logged and push returns.
PushCreateRequest(p) ==
    /\ push[p].pc = "create_pr"
    /\ \E status \in {201, 500} :
         LET id == Cardinality(pull_requests) + 1
         IN /\ push' = [push EXCEPT ![p] =
                          IF status = 201
                          THEN Returned([Requested(@) EXCEPT !.pr_url = id,
                                                             !.created_pr = TRUE])
                          ELSE Returned(Requested(@))]
            /\ pull_requests' =
                 IF status = 201
                 THEN pull_requests \cup
                        {[id |-> id, head |-> push[p].branch_name,
                          base |-> push[p].base_branch_name]}
                 ELSE pull_requests
            /\ request_urls' =
                 IF status = 201
                 THEN [request_urls EXCEPT ![push[p].base_branch_name] =
                                             @ \cup {id}]
                 ELSE request_urls
    /\ UNCHANGED <<repo_provider, branches, files, commits, pushes,
                   branch_creations, duplicate_branch_errors, pull_vars, ext_vars, client_vars>>

\* A step of the call of caller p after its start.
PushStep(p) ==
    \/ PushClient(p)
    \/ PushGetRepo(p)
    \/ PushGetBase(p)
    \/ PushCheckBranch(p)
    \/ PushCreateBranch(p)
    \/ PushGetFile(p)
    \/ PushUpdateFile(p)
    \/ PushCreateFile(p)
    \/ PushGetTip(p)
    \/ PushFindRequest(p)
    \/ PushGetWorkspace(p)
    \/ PushCreateRequest(p)

\* No call of push is under way.
NoPushRunning == \A q \in Callers : push[q].pc \in {"idle", "done"}

\* Calls of push by callers that do not wait for each other.
PushNext ==
    \E p \in Callers :
        \/ \E n \in 0..MaxObjects, branch \in {None, "dev"}, ref \in {None, "rel"},
              create_pr \in BOOLEAN :
             /\ n # 1 => (branch = None /\ ref = None /\ ~create_pr)
             /\ PushCall(p, n, branch, ref, create_pr)
        \/ PushStep(p)

\* Calls of push one after the other, by one caller: each call starts after
\* the one before it has ended.
PushNextSequential ==
    \/ \E n \in 0..MaxObjects, branch \in {None, "dev"}, ref \in {None, "rel"},
          create_pr \in BOOLEAN :
         /\ n # 1 => (branch = None /\ ref = None /\ ~create_pr)
         /\ NoPushRunning
         /\ PushCall(1, n, branch, ref, create_pr)
    \/ PushStep(1)

\* Two callers push the same workflow once each, to the default branch, and
\* do not wait for each other.
PushRaceNext ==
    \E p \in Callers :
        \/ /\ push[p].pc = "idle"
           /\ \E create_pr \in BOOLEAN : PushCall(p, 1, None, None, create_pr)
        \/ PushStep(p)

\* The repository while no push acts on it.
PushQuiet ==
    /\ PushInit
    /\ repo_provider = GITHUB
    /\ branches["rel"] = 0

(***************************************************************************)
(* PROVIDER DETECTION: _detect_provider and the three entry points that    *)
(* dispatch on its answer.  A string is the sequence of its characters.    *)
(***************************************************************************)
\* str.lower(), character by character.
LowerChar(c) ==
    LET upper == <<"A", "B", "G", "H", "I", "L", "T", "U">>
        lower == <<"a", "b", "g", "h", "i", "l", "t", "u">>
    IN IF \E i \in DOMAIN upper : upper[i] = c
       THEN lower[CHOOSE i \in DOMAIN upper : upper[i] = c]
       ELSE c

Lower(s) == [i \in DOMAIN s |-> LowerChar(s[i])]

\* sub in s
Contains(s, sub) ==
    \E i \in 0..(Len(s) - Len(sub)) : SubSeq(s, i + 1, i + Len(sub)) = sub

github == <<"g", "i", "t", "h", "u", "b">>
gitlab == <<"g", "i", "t", "l", "a", "b">>

\* The hosts the entry points are called with: a name, under a subdomain or
\* none, in a domain or none.
Hosts ==
    LET prefixes == {<<>>, <<"g", "i", "t", ".">>,
                     <<"g", "i", "t", "l", "a", "b", ".">>,
                     <<"G", "i", "t", "H", "u", "b", "-">>}
        names == {github, gitlab, <<"G", "i", "t", "H", "u", "b">>,
                  <<"G", "I", "T", "L", "A", "B">>, <<"g", "i", "t", "e", "a">>,
                  <<"g", "i", "t", "h", "u">>, <<"h", "u", "b">>, <<"l", "a", "b">>}
        suffixes == {<<>>, <<".", "c", "o", "m">>, <<".", "h", "u", "b">>,
                     <<"l", "a", "b", ".", "i", "o">>}
    IN {p \o n \o x : p \in prefixes, n \in names, x \in suffixes}

\* A detection that compares the host as it is written.
DetectProviderCaseSensitive(host) ==
    IF Contains(host, github)
    THEN [provider |-> GITHUB, warnings |-> 0]
    ELSE IF Contains(host, gitlab)
    THEN [provider |-> GITLAB, warnings |-> 0]
    ELSE [provider |-> GITLAB, warnings |-> 1]

\* _detect_provider: the provider, and the warnings it logs.
DetectProvider(host) ==
    LET host_lower == Lower(host)
    IN IF Contains(host_lower, github)
       THEN [provider |-> GITHUB, warnings |-> 0]
       ELSE IF Contains(host_lower, gitlab)
       THEN [provider |-> GITLAB, warnings |-> 0]
       ELSE [provider |-> GITLAB, warnings |-> 1]

EntryPoints == {"pull", "push", "list_commits"}

NotDispatched == [adapter |-> None, warnings |-> 0]

\* provider = self._detect_provider(url), then the adapter of GitLab when the
\* provider is GITLAB and the adapter of GitHub otherwise: the first lines
\* of _fetch_repository_content (called by pull), of push after the check of
\* the number of objects, and of list_commits.
Dispatch(op) ==
    LET detected == DetectProvider(url_host)
    IN dispatched' =
         [dispatched EXCEPT ![op] =
            [adapter |-> IF detected.provider = GITLAB THEN GITLAB ELSE GITHUB,
             warnings |-> detected.warnings]]

\* An entry point is called with the url, and calls an adapter.
DetectNext ==
    \E op \in EntryPoints :
        /\ dispatched[op] = NotDispatched
        /\ Dispatch(op)
        /\ UNCHANGED <<url_host, pull_vars, push_vars, aux_vars, client_vars,
                       list_vars, url_vars, cred_vars>>

\* No entry point is called with a url.
DetectQuiet ==
    /\ url_host = github
    /\ dispatched = [op \in EntryPoints |-> NotDispatched]

(***************************************************************************)
(* LIST COMMITS: list_commits and its two adapters.  The provider lists    *)
(* the commits of a branch newest first; a commit is its sha, a tag is its *)
(* name and the sha of the commit it records.                              *)
(***************************************************************************)
MaxCommits == 3
MaxTags == 2
MaxLimit == 3

NotListed == [status |-> "none", exc |-> None, limit |-> 0, commits |-> <<>>]

\* sha_to_tags.get(sha, []): the names of the tags that record sha, in the
\* order the provider lists the tags.
RECURSIVE TagsOf(_, _)
TagsOf(tags, sha) ==
    IF tags = <<>> THEN <<>>
    ELSE (IF Head(tags).sha = sha THEN <<Head(tags).name>> ELSE <<>>)
             \o TagsOf(Tail(tags), sha)

\* A loop that stops one commit late: count > limit.
FirstCommitsOneMore(commits_paginated, limit) ==
    SubSeq(commits_paginated, 1,
           IF limit + 1 < Len(commits_paginated) THEN limit + 1
           ELSE Len(commits_paginated))

\* _list_commits_github: for commit in commits_paginated, until count >= limit.
FirstCommits(commits_paginated, limit) ==
    SubSeq(commits_paginated, 1,
           IF limit < Len(commits_paginated) THEN limit ELSE Len(commits_paginated))

\* project.commits.list(ref_name=branch, per_page=limit): the first page of
\* the commits.  GitLab takes no per_page of 0 and answers 400.
CommitsPage(per_page) ==
    IF per_page = 0 THEN [status |-> 400, items |-> <<>>]
    ELSE [status |-> 200,
          items |-> SubSeq(repo_commits, 1,
                           IF per_page < Len(repo_commits) THEN per_page
                           ELSE Len(repo_commits))]

\* The commits an adapter returns for the commits and the tags it read.
CommitInfos(shas, tags) ==
    [i \in DOMAIN shas |-> [sha |-> shas[i], tags |-> TagsOf(tags, shas[i])]]

\* list_commits: the dispatch on the provider detected, then
\* _list_commits_github or _list_commits_gitlab.  failure names the request
\* the provider answers with an error, tags_page the tags on the one page
\* project.tags.list reads (repo.get_tags is read to its end).
ListCommits(limit, failure, tags_page) ==
    /\ Dispatch("list_commits")
    /\ LET provider == DetectProvider(url_host).provider
           page == CommitsPage(limit)
       IN listed' =
            IF failure # "none" \/ (provider = GITLAB /\ page.status # 200)
            THEN [status |-> "raised", exc |-> ProviderError(provider),
                  limit |-> limit, commits |-> <<>>]
            ELSE IF provider = GITLAB
            THEN [status |-> "returned", exc |-> None, limit |-> limit,
                  commits |-> CommitInfos(page.items,
                                          SubSeq(repo_tags, 1, tags_page))]
            ELSE [status |-> "returned", exc |-> None, limit |-> limit,
                  commits |-> CommitInfos(FirstCommits(repo_commits, limit),
                                          repo_tags)]
    /\ clients' = [clients EXCEPT
                     !.list_commits =
                        ClientAfter(DetectProvider(url_host).provider,
                                    failure # "client", listed'.status)]
    /\ UNCHANGED <<url_host, repo_commits, repo_tags, pull_vars, push_vars,
                   aux_vars, url_vars, cred_vars>>

\* One call on each repository: list_commits keeps nothing between calls, so
\* a second call answers as a first call with the same inputs does.
ListNext ==
    /\ listed = NotListed
    /\ \E limit \in 0..MaxLimit, failure \in {"none", "client", "repo", "commits", "tags"},
          tags_page \in 0..Len(repo_tags) :
           ListCommits(limit, failure, tags_page)

\* list_commits is not called.
ListQuiet ==
    /\ repo_commits = <<>>
    /\ repo_tags = <<>>
    /\ listed = NotListed

(***************************************************************************)
(* GIT URLS: GitUrl.to_url and the two URL regexes.  A string is the       *)
(* sequence of its characters; the empty sequence as ref is None.          *)
(***************************************************************************)
\* The pieces a URL string is made of after its host, at most.
MaxPieces == 5

SSH == "ssh"
HTTPS == "https"

\* "git+ssh://git@" and "https://", the literal either regex and either form
\* of to_url begins with.
Prefix(scheme) ==
    IF scheme = HTTPS
    THEN <<"h", "t", "t", "p", "s", ":", "/", "/">>
    ELSE <<"g", "i", "t", "+", "s", "s", "h", ":", "/", "/", "g", "i", "t", "@">>

DotGit == <<".", "g", "i", "t">>

GitUrl(host, org, repo, ref, scheme) ==
    [host |-> host, org |-> org, repo |-> repo, ref |-> ref, scheme |-> scheme]

\* GitUrl.to_url
ToUrl(u) ==
    LET base == Prefix(u.scheme) \o u.host \o <<"/">> \o u.org \o <<"/">>
                   \o u.repo \o DotGit
    IN IF u.ref # <<>> THEN base \o <<"@">> \o u.ref ELSE base

NoMatch == [matched |-> FALSE, host |-> <<>>, port |-> <<>>, path |-> <<>>, ref |-> <<>>]

\* GIT_SSH_URL_REGEX / GIT_HTTPS_URL_REGEX, the regex that begins with prefix,
\* matched against text:
\*   host  [^/:]+ ends before the first "/" or ":";
\*   port  (?::(\d+))? are the digits between that ":" and the "/";
\*   path  [^/@]+?(?:/[^/@]+?)+? is lazy: the shortest string of two or more
\*         segments after which the rest matches;
\*   rest  (?:\.git)?(?:@([^/@]+))?$
MatchUrl(prefix, text) ==
    LET After(t, n) == SubSeq(t, n + 1, Len(t))
        StartsWith(t, pre) == Len(t) >= Len(pre) /\ SubSeq(t, 1, Len(pre)) = pre
        rest == After(text, Len(prefix))
        stops == {i \in DOMAIN rest : rest[i] \in {"/", ":"}}
        stop == CHOOSE i \in stops : \A j \in stops : i <= j
        slashes == {i \in DOMAIN rest : i >= stop /\ rest[i] = "/"}
        slash == CHOOSE i \in slashes : \A j \in slashes : i <= j
        port == SubSeq(rest, stop + 1, slash - 1)
        tail == After(rest, slash)
        IsRef(r) == r # <<>> /\ \A i \in DOMAIN r : r[i] \notin {"/", "@"}
        IsPath(q) ==
            /\ Len(q) >= 3
            /\ q[1] # "/" /\ q[Len(q)] # "/"
            /\ \E i \in DOMAIN q : q[i] = "/"
            /\ \A i \in DOMAIN q : q[i] # "@"
            /\ \A i \in 1..(Len(q) - 1) : ~(q[i] = "/" /\ q[i + 1] = "/")
        IsRest(t) ==
            \/ t = <<>>
            \/ t = DotGit
            \/ StartsWith(t, <<"@">>) /\ IsRef(After(t, 1))
            \/ StartsWith(t, DotGit \o <<"@">>) /\ IsRef(After(t, 5))
        RefOf(t) ==
            IF StartsWith(t, DotGit \o <<"@">>) THEN After(t, 5)
            ELSE IF StartsWith(t, <<"@">>) THEN After(t, 1)
            ELSE <<>>
        ends == {k \in DOMAIN tail :
                    IsPath(SubSeq(tail, 1, k)) /\ IsRest(After(tail, k))}
        end == CHOOSE k \in ends : \A j \in ends : k <= j
    IN IF ~StartsWith(text, prefix) \/ stops = {} THEN NoMatch
       ELSE IF stop = 1 \/ slashes = {} THEN NoMatch
       ELSE IF rest[stop] = ":"
                /\ (port = <<>> \/ \E i \in DOMAIN port :
                                      port[i] \notin {"0", "1", "2", "3", "4",
                                                       "5", "6", "7", "8", "9"})
       THEN NoMatch
       ELSE IF ends = {} THEN NoMatch
       ELSE [matched |-> TRUE, host |-> SubSeq(rest, 1, stop - 1), port |-> port,
             path |-> SubSeq(tail, 1, end), ref |-> RefOf(After(tail, end))]

NotParsedUrl == [matched |-> FALSE, url |-> GitUrl(<<>>, <<>>, <<>>, <<>>, SSH)]

\* The parser of Git URLs: the form whose regex matches gives the scheme, the
\* last segment of the path is the repo and all before it the org; no match
\* is a parse error.
ParseGitUrl(text) ==
    LET ssh == MatchUrl(Prefix(SSH), text)
        https == MatchUrl(Prefix(HTTPS), text)
        m == IF ssh.matched THEN ssh ELSE https
        last == CHOOSE i \in DOMAIN m.path :
                    /\ m.path[i] = "/"
                    /\ \A j \in DOMAIN m.path : m.path[j] = "/" => j <= i
    IN IF ~m.matched THEN NotParsedUrl
       ELSE [matched |-> TRUE,
             url |-> GitUrl(m.host, SubSeq(m.path, 1, last - 1),
                            SubSeq(m.path, last + 1, Len(m.path)), m.ref,
                            IF ssh.matched THEN SSH ELSE HTTPS)]

NoUrlResult == [from |-> "none", match |-> NoMatch, parsed |-> NotParsedUrl]

(***************************************************************************)
(* THE GITLAB CREDENTIAL STORE: GitLabService's register, update, save,    *)
(* delete and get, each await of a call being one step, so that the calls  *)
(* of two callers interleave between their awaits.                         *)
(***************************************************************************)
MaxCalls == 2

\* The values of GitLabCredentials: an access token and an instance URL.
GitLabCredentials ==
    [access_token : {"glpat-1", "glpat-2"},
     gitlab_url : {"https://gitlab.com", "https://gitlab.example"}]

NoCredentials == [access_token |-> None, gitlab_url |-> None]

CREDENTIAL_SECRET_NAME == "gitlab-credentials"

\* The messages of the GitLabErrors the service raises, by their fixed text.
RetrieveFailed == "Failed to retrieve GitLab credentials"
RegisterFirst == "No existing GitLab credentials found. Use register_credentials() first."
DeleteFailed == "Failed to delete GitLab credentials"

\* The secrets service creates a secret unless the organization holds one of
\* that name already, which it refuses with an error of its own.
CreateOrgSecretUnchecked(store, id, name, keys) ==
    [raised |-> FALSE,
     store |-> store \cup {[id |-> id, name |-> name, keys |-> keys, readable |-> TRUE]}]

CreateOrgSecret(store, id, name, keys) ==
    IF \E s \in store : s.name = name
    THEN [raised |-> TRUE, store |-> store]
    ELSE [raised |-> FALSE,
          store |-> store \cup {[id |-> id, name |-> name, keys |-> keys,
                                 readable |-> TRUE]}]

\* get_org_secret_by_name: the secrets of that name; none is the service's
\* not-found error.
GetOrgSecretByName(store, name) == {s \in store : s.name = name}

\* update_org_secret and delete_org_secret act on the secret object the caller
\* holds; a secret that was deleted since the caller read it is an error of
\* the secrets service, and the store is left as it is.
UpdateOrgSecret(store, id, keys) ==
    IF \E s \in store : s.id = id
    THEN [raised |-> FALSE,
          store |-> {IF s.id = id THEN [s EXCEPT !.keys = keys, !.readable = TRUE] ELSE s :
                        s \in store}]
    ELSE [raised |-> TRUE, store |-> store]

DeleteOrgSecret(store, id) ==
    [raised |-> ~(\E s \in store : s.id = id),
     store |-> {s \in store : s.id # id}]

\* A retrieval that wraps the error of a missing secret only.
GetGitlabCredentialsNotFoundOnly(store) ==
    LET found == GetOrgSecretByName(store, CREDENTIAL_SECRET_NAME)
        failure == IF found = {} THEN "not found"
                   ELSE IF \E s \in found : ~s.readable THEN "unreadable"
                   ELSE None
    IN IF failure = "not found"
       THEN [raised |-> TRUE, exc |-> GitLabError, message |-> RetrieveFailed,
             credentials |-> NoCredentials]
       ELSE IF failure # None
       THEN [raised |-> TRUE, exc |-> OtherException, message |-> None,
             credentials |-> NoCredentials]
       ELSE [raised |-> FALSE, exc |-> None, message |-> None,
             credentials |-> (CHOOSE s \in found : TRUE).keys]

\* get_gitlab_credentials: the secret of the fixed name, decrypted and
\* validated.  Every failure (no secret, keys that do not decrypt or do not
\* validate) is raised as one GitLabError, "Failed to retrieve GitLab
\* credentials: ...".
GetGitlabCredentials(store) ==
    LET found == GetOrgSecretByName(store, CREDENTIAL_SECRET_NAME)
        failure == IF found = {} THEN "not found"
                   ELSE IF \E s \in found : ~s.readable THEN "unreadable"
                   ELSE None
    IN IF failure # None
       THEN [raised |-> TRUE, exc |-> GitLabError, message |-> RetrieveFailed,
             credentials |-> NoCredentials]
       ELSE [raised |-> FALSE, exc |-> None, message |-> None,
             credentials |-> (CHOOSE s \in found : TRUE).keys]

\* What the organization holds when a call starts (the call record keeps it,
\* and whether the caller's last call was a delete that returned).
Stored(store) ==
    IF GetOrgSecretByName(store, CREDENTIAL_SECRET_NAME) = {} THEN "nothing"
    ELSE IF GetGitlabCredentials(store).raised THEN "unreadable"
    ELSE "credentials"

IdleCall ==
    [role |-> None, op |-> "none", pc |-> "idle", args |-> NoCredentials, existing |-> NoCredentials,
     secret |-> 0, outcome |-> "none", exc |-> None, message |-> None,
     was_created |-> FALSE, exists |-> FALSE, result |-> NoCredentials,
     stored |-> "nothing", after_delete |-> FALSE]

\* The call of caller c ends with an exception.
CredRaised(c, exc, message) ==
    cred' = [cred EXCEPT ![c].pc = "done", ![c].outcome = "raised",
                         ![c].exc = exc, ![c].message = message]

\* The call of caller c returns: a configuration of the URL and, from save,
\* was_created; from get, the credentials; from the status, exists and the
\* URL.
CredReturned(c, result) ==
    cred' = [cred EXCEPT ![c].pc = "done", ![c].outcome = "returned",
                         ![c].result = result,
                         ![c].was_created = (cred[c].op = "save" /\ cred[c].pc = "create"),
                         ![c].exists = (cred[c].pc = "created_at")]

\* require_access_level(level): the call is refused, with an authorization
\* error, before the body of the method runs, unless the role of the caller
\* has the level.
RequireAccessLevel(role, level) == [raised |-> role # level]

\* The methods decorated with require_access_level(AccessLevel.ADMIN), less
\* delete_gitlab_credentials.
AdminOnlyButDelete == {"register", "update", "save"}

\* The methods decorated with require_access_level(AccessLevel.ADMIN).
AdminOnly == {"register", "update", "save", "delete"}

\* A caller of some role calls register_credentials(access_token, gitlab_url),
\* update_gitlab_credentials(access_token or None, gitlab_url or None),
\* save_gitlab_credentials(access_token, gitlab_url),
\* delete_gitlab_credentials(), get_gitlab_credentials(),
\* get_gitlab_credentials_status() or get_gitlab_client_for_repo(repo_url).
CredCall(c, role, op, args) ==
    /\ cred[c].pc \in {"idle", "done"}
    /\ cred_calls < MaxCalls
    /\ cred_calls' = cred_calls + 1
    /\ LET call == [IdleCall EXCEPT
                      !.role = role, !.op = op, !.args = args,
                      !.stored = Stored(secrets),
                      !.after_delete = (cred[c].op = "delete"
                                        /\ cred[c].outcome = "returned")]
       IN cred' = [cred EXCEPT ![c] =
                     IF op \in AdminOnly /\ RequireAccessLevel(role, "ADMIN").raised
                     THEN [call EXCEPT !.pc = "done", !.outcome = "raised",
                                       !.exc = OtherException]
                     ELSE [call EXCEPT
                             !.pc = CASE op = "register" -> "create"
                                      [] op = "update" -> "get"
                                      [] op = "save" -> "check"
                                      [] op = "delete" -> "find"
                                      [] op = "status" -> "status"
                                      [] op = "client" -> "client"
                                      [] OTHER -> "read"]]
    /\ UNCHANGED <<secrets, next_id, pull_vars, push_vars, aux_vars,
                   client_vars, detect_vars, list_vars,
                   url_vars>>

\* get_gitlab_credentials, called by itself.
CredRead(c) ==
    /\ cred[c].pc = "read"
    /\ LET got == GetGitlabCredentials(secrets)
       IN IF got.raised
          THEN CredRaised(c, got.exc, got.message)
          ELSE CredReturned(c, got.credentials)
    /\ UNCHANGED <<secrets, next_id, cred_calls, pull_vars, push_vars,
                   aux_vars, client_vars, detect_vars,
                   list_vars, url_vars>>

\* save_gitlab_credentials: the retrieval that tells an update from a
\* registration.  A GitLabError whose text holds "Failed to retrieve GitLab
\* credentials" sends the call to register_credentials.
CredSaveCheck(c) ==
    /\ cred[c].pc = "check"
    /\ LET got == GetGitlabCredentials(secrets)
       IN IF ~got.raised
          THEN cred' = [cred EXCEPT ![c].pc = "get"]
          ELSE IF got.exc = GitLabError /\ got.message = RetrieveFailed
          THEN cred' = [cred EXCEPT ![c].pc = "create"]
          ELSE CredRaised(c, got.exc, got.message)
    /\ UNCHANGED <<secrets, next_id, cred_calls, pull_vars, push_vars,
                   aux_vars, client_vars, detect_vars,
                   list_vars, url_vars>>

\* An update that registers what it was given when it finds no credentials.
CredUpdateGetOrRegister(c) ==
    /\ cred[c].pc = "get"
    /\ LET got == GetGitlabCredentials(secrets)
       IN IF got.raised
          THEN cred' = [cred EXCEPT ![c].pc = "create"]
          ELSE cred' = [cred EXCEPT ![c].pc = "find", ![c].existing = got.credentials]
    /\ UNCHANGED <<secrets, next_id, cred_calls, pull_vars, push_vars,
                   aux_vars, client_vars, detect_vars,
                   list_vars, url_vars>>

\* update_gitlab_credentials: the existing credentials are read; without
\* them the call fails with "No existing GitLab credentials found", which
\* save re-raises.
CredUpdateGet(c) ==
    /\ cred[c].pc = "get"
    /\ LET got == GetGitlabCredentials(secrets)
       IN IF got.raised
          THEN CredRaised(c, GitLabError, RegisterFirst)
          ELSE cred' = [cred EXCEPT ![c].pc = "find", ![c].existing = got.credentials]
    /\ UNCHANGED <<secrets, next_id, cred_calls, pull_vars, push_vars,
                   aux_vars, client_vars, detect_vars,
                   list_vars, url_vars>>

\* A delete that returns when it finds no secret.
CredFindOrSkip(c) ==
    /\ cred[c].pc = "find"
    /\ LET found == GetOrgSecretByName(secrets, CREDENTIAL_SECRET_NAME)
       IN IF found = {}
          THEN IF cred[c].op = "delete"
               THEN CredReturned(c, NoCredentials)
               ELSE CredRaised(c, OtherException, None)
          ELSE \E s \in found :
                  cred' = [cred EXCEPT ![c].secret = s.id,
                                       ![c].pc = IF cred[c].op = "delete"
                                                 THEN "remove" ELSE "write"]
    /\ UNCHANGED <<secrets, next_id, cred_calls, pull_vars, push_vars,
                   aux_vars, client_vars, detect_vars,
                   list_vars, url_vars>>

\* update and delete read the secret by its name.  The not-found error of the
\* secrets service leaves update (and save) as it is; delete wraps it in a
\* GitLabError.
CredFind(c) ==
    /\ cred[c].pc = "find"
    /\ LET found == GetOrgSecretByName(secrets, CREDENTIAL_SECRET_NAME)
       IN IF found = {}
          THEN IF cred[c].op = "delete"
               THEN CredRaised(c, GitLabError, DeleteFailed)
               ELSE CredRaised(c, OtherException, None)
          ELSE \E s \in found :
                  cred' = [cred EXCEPT ![c].secret = s.id,
                                       ![c].pc = IF cred[c].op = "delete"
                                                 THEN "remove" ELSE "write"]
    /\ UNCHANGED <<secrets, next_id, cred_calls, pull_vars, push_vars,
                   aux_vars, client_vars, detect_vars,
                   list_vars, url_vars>>

\* A write that takes the default of a field that was not given.
CredUpdateWriteDefaults(c) ==
    /\ cred[c].pc = "write"
    /\ LET r == cred[c]
           updated_credentials ==
               [access_token |-> IF r.args.access_token # None
                                 THEN r.args.access_token ELSE "glpat-1",
                gitlab_url |-> IF r.args.gitlab_url # None
                               THEN r.args.gitlab_url ELSE "https://gitlab.com"]
           done == UpdateOrgSecret(secrets, r.secret, updated_credentials)
       IN /\ secrets' = done.store
          /\ IF done.raised
             THEN CredRaised(c, OtherException, None)
             ELSE CredReturned(c, [access_token |-> None,
                                   gitlab_url |-> updated_credentials.gitlab_url])
    /\ UNCHANGED <<next_id, cred_calls, pull_vars, push_vars, aux_vars,
                   client_vars, detect_vars, list_vars,
                   url_vars>>

\* update_gitlab_credentials writes the given values, and the existing value
\* of a field that was not given, into the secret it holds.
CredUpdateWrite(c) ==
    /\ cred[c].pc = "write"
    /\ LET r == cred[c]
           updated_credentials ==
               [access_token |-> IF r.args.access_token # None
                                 THEN r.args.access_token ELSE r.existing.access_token,
                gitlab_url |-> IF r.args.gitlab_url # None
                               THEN r.args.gitlab_url ELSE r.existing.gitlab_url]
           done == UpdateOrgSecret(secrets, r.secret, updated_credentials)
       IN /\ secrets' = done.store
          /\ IF done.raised
             THEN CredRaised(c, OtherException, None)
             ELSE CredReturned(c, [access_token |-> None,
                                   gitlab_url |-> updated_credentials.gitlab_url])
    /\ UNCHANGED <<next_id, cred_calls, pull_vars, push_vars, aux_vars,
                   client_vars, detect_vars, list_vars,
                   url_vars>>

\* register_credentials creates the secret without looking for one first;
\* the error of the secrets service is not caught.
CredCreate(c) ==
    /\ cred[c].pc = "create"
    /\ LET done == CreateOrgSecret(secrets, next_id, CREDENTIAL_SECRET_NAME, cred[c].args)
       IN /\ secrets' = done.store
          /\ next_id' = IF done.raised THEN next_id ELSE next_id + 1
          /\ IF done.raised
             THEN CredRaised(c, OtherException, None)
             ELSE CredReturned(c, [access_token |-> None,
                                   gitlab_url |-> cred[c].args.gitlab_url])
    /\ UNCHANGED <<cred_calls, pull_vars, push_vars, aux_vars, client_vars,
                   detect_vars, list_vars, url_vars>>

\* delete_gitlab_credentials deletes the secret it holds; every failure is
\* raised as a GitLabError.
CredDeleteRemove(c) ==
    /\ cred[c].pc = "remove"
    /\ LET done == DeleteOrgSecret(secrets, cred[c].secret)
       IN /\ secrets' = done.store
          /\ IF done.raised
             THEN CredRaised(c, GitLabError, DeleteFailed)
             ELSE CredReturned(c, NoCredentials)
    /\ UNCHANGED <<next_id, cred_calls, pull_vars, push_vars, aux_vars,
                   client_vars, detect_vars, list_vars,
                   url_vars>>

\* get_gitlab_credentials_status reads the credentials, and then the secret
\* by its name for created_at.  A GitLabError is answered with exists = False;
\* the not-found error of the secrets service is no GitLabError.
CredStatus(c) ==
    /\ cred[c].pc \in {"status", "created_at"}
    /\ IF cred[c].pc = "status"
       THEN LET got == GetGitlabCredentials(secrets)
            IN IF got.raised
               THEN IF got.exc = GitLabError
                    THEN CredReturned(c, NoCredentials)
                    ELSE CredRaised(c, got.exc, got.message)
               ELSE cred' = [cred EXCEPT ![c].pc = "created_at",
                                         ![c].existing = got.credentials]
       ELSE IF GetOrgSecretByName(secrets, CREDENTIAL_SECRET_NAME) = {}
            THEN CredRaised(c, OtherException, None)
            ELSE CredReturned(c, [access_token |-> None,
                                  gitlab_url |-> cred[c].existing.gitlab_url])
    /\ UNCHANGED <<secrets, next_id, cred_calls, pull_vars, push_vars,
                   aux_vars, client_vars, detect_vars,
                   list_vars, url_vars>>

\* What gl.auth() can end with: the user is returned, GitLab answers 401
\* (GitlabAuthenticationError), GitLab answers another error (GitlabError),
\* or the request does not reach GitLab and the HTTP transport raises its own
\* error, which is no GitlabError.
AuthAnswers == {"ok", "GitlabAuthenticationError", "GitlabError", "ConnectionError"}

\* A factory that keeps the credentials the organization held at first.
CredClientKept(c, answer) ==
    /\ cred[c].pc = "client"
    /\ CASE answer = "ok" ->
              CredReturned(c, [access_token |-> "glpat-1",
                               gitlab_url |-> "https://gitlab.example"])
         [] answer = "GitlabAuthenticationError" ->
              CredRaised(c, GitLabError, "GitLab authentication failed")
         [] answer = "GitlabError" ->
              CredRaised(c, GitLabError, "GitLab API error")
         [] OTHER -> CredRaised(c, OtherException, answer)
    /\ UNCHANGED <<secrets, next_id, cred_calls, pull_vars, push_vars,
                   aux_vars, client_vars, detect_vars,
                   list_vars, url_vars>>

\* get_gitlab_client_for_repo reads the credentials, builds the client and
\* authenticates it, without an await after the credentials are read.  The
\* two errors of the GitLab library are raised as GitLabErrors of different
\* texts; no other exception is caught.
CredClient(c, answer) ==
    /\ cred[c].pc = "client"
    /\ LET got == GetGitlabCredentials(secrets)
       IN IF got.raised
          THEN CredRaised(c, got.exc, got.message)
          ELSE CASE answer = "ok" -> CredReturned(c, got.credentials)
                 [] answer = "GitlabAuthenticationError" ->
                      CredRaised(c, GitLabError, "GitLab authentication failed")
                 [] answer = "GitlabError" ->
                      CredRaised(c, GitLabError, "GitLab API error")
                 [] OTHER -> CredRaised(c, OtherException, answer)
    /\ UNCHANGED <<secrets, next_id, cred_calls, pull_vars, push_vars,
                   aux_vars, client_vars, detect_vars,
                   list_vars, url_vars>>

\* The steps of caller c.  register and save are called with a token and the
\* default gitlab_url; update with a token, a URL, both or neither.
CredStep(c) ==
    \/ \E role \in {"ADMIN", "BASIC"} :
          \/ \E op \in {"register", "save"},
                args \in {k \in GitLabCredentials : k.gitlab_url = "https://gitlab.com"} :
                CredCall(c, role, op, args)
          \/ \E args \in [access_token : {None, "glpat-2"},
                          gitlab_url : {None, "https://gitlab.example"}] :
                CredCall(c, role, "update", args)
          \/ \E op \in {"delete", "get", "status", "client"} :
                CredCall(c, role, op, NoCredentials)
    \/ CredRead(c)
    \/ CredSaveCheck(c)
    \/ CredUpdateGet(c)
    \/ CredFind(c)
    \/ CredUpdateWrite(c)
    \/ CredCreate(c)
    \/ CredDeleteRemove(c)
    \/ CredStatus(c)
    \/ \E answer \in AuthAnswers : CredClient(c, answer)

\* Two callers, each call waiting at its awaits while the other one runs.
CredNext == \E c \in Callers : CredStep(c)

\* One caller: each call ends before the next one starts.
CredNextSequential == CredStep(1)

\* The credential service is not called.
CredQuiet ==
    /\ secrets = {}
    /\ next_id = 1
    /\ cred = [c \in Callers |-> IdleCall]
    /\ cred_calls = 0

(***************************************************************************)
(* THE TWO PUSH ADAPTERS SIDE BY SIDE: _push_github and _push_gitlab, each *)
(* run on its own copy of one repository, the provider answering the same  *)
(* request of either adapter in the same way.  A request is one awaited    *)
(* call of the adapter.                                                    *)
(***************************************************************************)
AdapterOps ==
    {"client", "repo", "base", "check_branch", "create_branch", "get_file",
     "update_file", "create_file", "tip", "find_pr", "workspace", "create_pr"}

\* The requests that change the repository.
AdapterWrites == {"create_branch", "update_file", "create_file", "create_pr"}

\* A repository and the provider's answers: the base branch and the target
\* branch are absent, or there without or with the workflow's file; at most
\* one request is answered with an error (an update: is rejected); an open
\* request from the target into the base is there or not.
Scenarios ==
    {s \in [base : {"absent", "empty", "file"},
            target : {"absent", "empty", "file"},
            fault : AdapterOps \cup {"none"},
            create_pr : BOOLEAN,
            open_request : BOOLEAN] :
        s.open_request => (s.target # "absent" /\ s.create_pr)}

\* The tip of a branch of the scenario, 0 when the branch is absent.
ScenarioTip(kind, sha) == IF kind = "absent" THEN 0 ELSE sha

\* The content of the workflow's file on a branch of the scenario, 0 for none.
ScenarioFile(kind) == IF kind = "file" THEN 5 ELSE 0

\* An adapter before its first request, on its copy of the repository.
AdapterStart ==
    [pc |-> "client", steps |-> <<>>, base_sha |-> 0,
     target_tip |-> ScenarioTip(scenario.target, 2),
     file |-> ScenarioFile(scenario.target),
     requests |-> IF scenario.open_request THEN 1 ELSE 0,
     commit_sha |-> 0, wrote |-> FALSE,
     outcome |-> None, exc |-> None, result |-> CommitInfo(0, None)]

\* One request of the adapter of provider, in the state a of its run.
AdapterStep(provider, a) ==
    LET did == [a EXCEPT !.steps = Append(@, a.pc)]
        fails == scenario.fault = a.pc
        raised == [did EXCEPT !.pc = "done", !.outcome = "raised",
                              !.exc = ProviderError(provider)]
        returned(r) == [r EXCEPT !.pc = "done", !.outcome = "returned",
                                 !.result = CommitInfo(r.commit_sha,
                                                       BranchName(WorkflowId))]
        written == [did EXCEPT !.pc = "tip", !.wrote = TRUE, !.file = 9,
                               !.target_tip = 3]
        base_tip == ScenarioTip(scenario.base, 1)
    IN CASE a.pc = "client" ->
              IF fails THEN raised ELSE [did EXCEPT !.pc = "repo"]
         [] a.pc = "repo" ->
              \* _push_github reads the base branch next, _push_gitlab does not
              IF fails THEN raised
              ELSE [did EXCEPT !.pc = IF provider = GITHUB THEN "base"
                                      ELSE "check_branch"]
         [] a.pc = "base" ->
              IF fails \/ base_tip = 0 THEN raised
              ELSE [did EXCEPT !.pc = "check_branch", !.base_sha = base_tip]
         [] a.pc = "check_branch" ->
              IF fails THEN raised
              ELSE IF a.target_tip = 0 THEN [did EXCEPT !.pc = "create_branch"]
              ELSE [did EXCEPT !.pc = "get_file"]
         [] a.pc = "create_branch" ->
              \* sha=base_branch.commit.sha / ref=base_branch_name
              LET start == IF provider = GITHUB THEN a.base_sha ELSE base_tip
              IN IF fails \/ start = 0 THEN raised
                 ELSE [did EXCEPT !.pc = "get_file", !.target_tip = start,
                                  !.file = ScenarioFile(scenario.base)]
         [] a.pc = "get_file" ->
              IF fails
              THEN (IF provider = GITHUB THEN [did EXCEPT !.pc = "tip"] ELSE raised)
              ELSE IF a.file = 0 THEN [did EXCEPT !.pc = "create_file"]
              ELSE [did EXCEPT !.pc = "update_file"]
         [] a.pc = "update_file" ->
              \* except GithubException without else / except GitlabError: else raise
              IF fails
              THEN (IF provider = GITHUB THEN [did EXCEPT !.pc = "tip"] ELSE raised)
              ELSE written
         [] a.pc = "create_file" ->
              IF fails THEN raised ELSE written
         [] a.pc = "tip" ->
              IF fails THEN raised
              ELSE LET r == [did EXCEPT !.commit_sha = a.target_tip]
                   IN IF scenario.create_pr THEN [r EXCEPT !.pc = "find_pr"]
                      ELSE returned(r)
         [] a.pc = "find_pr" ->
              IF fails \/ a.requests > 0 THEN returned(did)
              ELSE [did EXCEPT !.pc = "workspace"]
         [] a.pc = "workspace" ->
              IF fails
              THEN [did EXCEPT !.pc = "done", !.outcome = "raised",
                               !.exc = "TracecatNotFoundError"]
              ELSE [did EXCEPT !.pc = "create_pr"]
         [] a.pc = "create_pr" ->
              IF fails THEN returned(did)
              ELSE returned([did EXCEPT !.requests = @ + 1])
         [] OTHER -> a

\* Either adapter makes its next request.
AdaptersNext ==
    /\ \E provider \in VCSProvider :
         /\ adapter[provider].pc # "done"
         /\ adapter' = [adapter EXCEPT ![provider] = AdapterStep(provider, @)]
    /\ UNCHANGED <<scenario, pull_vars, push_vars, detect_vars, list_vars,
                   url_vars, cred_vars, client_vars>>

\* No adapter is run side by side with the other.
AdaptersQuiet ==
    /\ scenario = [base |-> "empty", target |-> "absent", fault |-> "none",
                   create_pr |-> FALSE, open_request |-> FALSE]
    /\ adapter = [provider \in VCSProvider |-> [AdapterStart EXCEPT !.pc = "done"]]

\* No fetch and no list_commits has asked for a client.
ClientsQuiet == clients = [op \in {"fetch", "list_commits"} |-> NoClient]

AuxQuiet == AdaptersQuiet /\ ClientsQuiet

\* No URL is built or parsed.
UrlQuiet ==
    /\ git_url = GitUrl(<<>>, <<>>, <<>>, <<>>, SSH)
    /\ url_text = <<>>
    /\ url_result = NoUrlResult

\* A GitUrl value of either scheme, with an org of one or two segments, a
\* repo, and no ref or a ref of one or two segments; or a URL string: either
\* prefix, a host with or without a port, and any pieces after it.
InitUrl ==
    /\ PullInit
    /\ PushQuiet
    /\ DetectQuiet
    /\ ListQuiet
    /\ CredQuiet
    /\ AuxQuiet
    /\ url_result = NoUrlResult
    /\ \/ /\ url_text = <<>>
          /\ git_url \in
                {GitUrl(host, org, repo, ref, scheme) :
                    host \in {<<"h">>, github \o <<".", "c", "o", "m">>},
                    org \in {<<"o">>, <<"o", "/", "p">>},
                    repo \in {<<"r">>, <<"r">> \o DotGit},
                    ref \in {<<>>, <<"v">>, <<"f", "/", "x">>},
                    scheme \in {SSH, HTTPS}}
       \/ /\ git_url = GitUrl(<<>>, <<>>, <<>>, <<>>, SSH)
          /\ \E scheme \in {SSH, HTTPS},
                host \in {<<"h", "/">>, <<"h", ":", "8", "/">>},
                n \in 0..MaxPieces :
               \E pieces \in [1..n -> {<<"a">>, <<"/">>, DotGit, <<"@">>, <<".">>}] :
                  LET RECURSIVE Join(_)
                      Join(i) == IF i > n THEN <<>> ELSE pieces[i] \o Join(i + 1)
                  IN url_text = Prefix(scheme) \o host \o Join(1)

\* The regexes and the parser applied to the URL string.
ParseText ==
    /\ url_text # <<>>
    /\ url_result.from = "none"
    /\ url_result' =
         [from |-> "text",
          match |-> IF MatchUrl(Prefix(SSH), url_text).matched
                    THEN MatchUrl(Prefix(SSH), url_text)
                    ELSE MatchUrl(Prefix(HTTPS), url_text),
          parsed |-> ParseGitUrl(url_text)]
    /\ UNCHANGED <<git_url, url_text, pull_vars, push_vars, aux_vars,
                   client_vars, detect_vars, list_vars,
                   cred_vars>>

\* to_url of the GitUrl value, and the regexes and the parser applied to it.
RoundTrip ==
    /\ url_text = <<>>
    /\ url_result.from = "none"
    /\ url_text' = ToUrl(git_url)
    /\ url_result' =
         [from |-> "to_url",
          match |-> MatchUrl(Prefix(git_url.scheme), url_text'),
          parsed |-> ParseGitUrl(url_text')]
    /\ UNCHANGED <<git_url, pull_vars, push_vars, aux_vars, client_vars,
                   detect_vars, list_vars, cred_vars>>

UrlNext == ParseText \/ RoundTrip

SpecGitUrl == InitUrl /\ [][UrlNext]_vars

Init ==
    PullInit /\ PushInit /\ DetectQuiet /\ ListQuiet /\ UrlQuiet /\ CredQuiet /\ AuxQuiet

Next == PullNext \/ PushNext

Spec == Init /\ [][Next]_vars

\* pull alone, beside an untouched repository.
InitPull ==
    PullInit /\ PushQuiet /\ DetectQuiet /\ ListQuiet /\ UrlQuiet /\ CredQuiet
    /\ AuxQuiet

SpecPull == InitPull /\ [][PullNext]_vars

SpecFetch == InitPull /\ [][FetchNext]_vars

\* The entry points called with the url of one host.
InitDetect ==
    /\ PullInit
    /\ PushQuiet
    /\ url_host \in Hosts
    /\ dispatched = [op \in EntryPoints |-> NotDispatched]
    /\ ListQuiet
    /\ UrlQuiet
    /\ CredQuiet
    /\ AuxQuiet

SpecDetect == InitDetect /\ [][DetectNext]_vars

\* list_commits, called with the url of a repository of either provider or of
\* a host of neither name.  Commit n is the newest of n commits, and tag i
\* records any of them or a commit of another branch.
InitList ==
    /\ PullInit
    /\ PushQuiet
    /\ url_host \in {github \o <<".", "c", "o", "m">>, gitlab \o <<".", "c", "o", "m">>,
                      <<"g", "i", "t", ".", "i", "o">>}
    /\ dispatched = [op \in EntryPoints |-> NotDispatched]
    /\ \E n \in 0..MaxCommits : repo_commits = [i \in 1..n |-> n + 1 - i]
    /\ \E m \in 0..MaxTags :
         \E shas \in [1..m -> 1..(MaxCommits + 1)] :
            repo_tags = [i \in 1..m |-> [name |-> i, sha |-> shas[i]]]
    /\ listed = NotListed
    /\ UrlQuiet
    /\ CredQuiet
    /\ AuxQuiet

SpecListCommits == InitList /\ [][ListNext]_vars

\* The credential service beside an untouched repository.  The organization
\* holds no secret, or the secret of some credentials, or a secret of that
\* name whose keys do not decrypt or validate.
InitCred ==
    /\ PullInit
    /\ PushQuiet
    /\ DetectQuiet
    /\ ListQuiet
    /\ UrlQuiet
    /\ secrets \in {{}} \cup
          {{[id |-> 1, name |-> CREDENTIAL_SECRET_NAME,
             keys |-> [access_token |-> "glpat-1",
                       gitlab_url |-> "https://gitlab.example"],
             readable |-> readable]} : readable \in BOOLEAN}
    /\ next_id = 2
    /\ cred = [c \in Callers |-> IdleCall]
    /\ cred_calls = 0
    /\ AuxQuiet

SpecCredentials == InitCred /\ [][CredNext]_vars

SpecCredSequential == InitCred /\ [][CredNextSequential]_vars

\* push alone: no pull is called.
SpecPush == Init /\ [][PushNext]_vars

SpecPushSequential == Init /\ [][PushNextSequential]_vars

\* The repository before two pushes of one workflow: its sync branch does not
\* exist, or an earlier push has left it, with or without the workflow's file.
InitPushRace ==
    /\ PullInit
    /\ DetectQuiet
    /\ ListQuiet
    /\ UrlQuiet
    /\ CredQuiet
    /\ AuxQuiet
    /\ repo_provider \in VCSProvider
    /\ \E target \in {"absent", "empty", "file"} :
         /\ branches = [b \in BranchNames |->
                          CASE b = "main" -> 1
                            [] b = "dev"  -> 2
                            [] b = "rel"  -> 0
                            [] OTHER      -> IF target = "absent" THEN 0 ELSE 50]
         /\ files = [b \in BranchNames |->
                       IF b = "dev" THEN [content |-> 100, sha |-> 100]
                       ELSE IF b = BranchName(WorkflowId) /\ target = "file"
                       THEN [content |-> 50, sha |-> 50]
                       ELSE NoFile]
    /\ pull_requests = {}
    /\ commits = 0
    /\ push = [p \in Callers |-> IdlePush]
    /\ pushes = 0
    /\ branch_creations = 0
    /\ duplicate_branch_errors = 0
    /\ request_urls = [b \in BaseBranches |-> {}]

SpecPushRace == InitPushRace /\ [][PushRaceNext]_vars

\* The two push adapters, each before its first request, on every scenario.
InitAdapters ==
    /\ PullInit
    /\ PushQuiet
    /\ DetectQuiet
    /\ ListQuiet
    /\ UrlQuiet
    /\ CredQuiet
    /\ scenario \in Scenarios
    /\ adapter = [provider \in VCSProvider |-> AdapterStart]
    /\ ClientsQuiet

SpecAdapters == InitAdapters /\ [][AdaptersNext]_vars

\* One repository of either provider, on which one of pull, push (by one
\* caller) and list_commits is called.
InitClients ==
    /\ PullInit
    /\ PushInit
    /\ branches["rel"] = 0
    /\ url_host = (IF repo_provider = GITHUB THEN github ELSE gitlab)
                      \o <<".", "c", "o", "m">>
    /\ dispatched = [op \in EntryPoints |-> NotDispatched]
    /\ repo_commits = <<2, 1>>
    /\ repo_tags = <<[name |-> 1, sha |-> 2]>>
    /\ listed = NotListed
    /\ UrlQuiet
    /\ CredQuiet
    /\ AuxQuiet

\* The calls of one of the three entry points.
ClientsNext ==
    \/ pushes = 0 /\ listed = NotListed /\ FetchNext
    \/ pull_pc = "idle" /\ listed = NotListed /\ PushNextSequential
    \/ pull_pc = "idle" /\ pushes = 0 /\ ListNext

SpecClients == InitClients /\ [][ClientsNext]_vars

(***************************************************************************)
(* Properties of pull and of the definition parser.                        *)
(***************************************************************************)
\* The fetched files for which the parser makes a diagnostic.
DiagnosedFiles ==
    {i \in DOMAIN repo_content : ParseOne(i, repo_content[i]).kind = "diagnostic"}

ImportCalls == {i \in DOMAIN pull_calls : pull_calls[i].call = "import"}

\* C1: a pull whose fetch returned N files of which K >= 1 produce a parse or
\* validation diagnostic returns success = false, workflows_imported = 0 and
\* exactly K diagnostics, and never invokes the import collaborator.
PullAbortsWithAllDiagnostics ==
    (pull_pc = "done" /\ DiagnosedFiles # {}) =>
        /\ ~pull_raised
        /\ pull_result.success = FALSE
        /\ pull_result.workflows_imported = 0
        /\ Len(pull_result.diagnostics) = Cardinality(DiagnosedFiles)
        /\ ImportCalls = {}

\* C2: a pull whose options are absent, or whose commit_sha is None or empty,
\* ends at once with success = false and exactly one diagnostic, of type
\* validation, having called no collaborator.
MissingCommitShaFailsFast ==
    (pull_pc # "idle"
        /\ (~pull_options.present \/ pull_options.commit_sha \in {None, ""})) =>
        /\ pull_pc = "done"
        /\ ~pull_raised
        /\ pull_result.success = FALSE
        /\ Len(pull_result.diagnostics) = 1
        /\ pull_result.diagnostics[1].error_type = "validation"
        /\ pull_calls = <<>>

MissingCommitShaWitness ==
    /\ pull_pc = "done"
    /\ pull_options.present
    /\ pull_options.commit_sha = ""
    /\ pull_result.success = FALSE
    /\ pull_calls = <<>>

ParsingNeverRaises ==
    /\ parsed.status # "raised"
    /\ parsed.status = "returned" =>
          Len(parsed.remote_workflows) + Len(parsed.diagnostics) = Len(repo_content)

\* C12: a pull with dry_run set whose files all validated (no diagnostic)
\* returns success = true, workflows_found = the number of validated
\* definitions, workflows_imported = 0 and no diagnostics, and never reaches
\* or calls the import collaborator.
DryRunImportsNothing ==
    (pull_options.present /\ pull_options.dry_run) =>
        /\ pull_pc # "import"
        /\ ImportCalls = {}
        /\ (pull_pc = "done" /\ parsed.status = "returned"
              /\ parsed.diagnostics = <<>>) =>
               /\ ~pull_raised
               /\ pull_result.success = TRUE
               /\ pull_result.workflows_found = Len(parsed.remote_workflows)
               /\ pull_result.workflows_found = Len(repo_content)
               /\ pull_result.workflows_imported = 0
               /\ pull_result.diagnostics = <<>>

DryRunWitness ==
    /\ pull_pc = "done"
    /\ pull_options.dry_run
    /\ Len(repo_content) = 2
    /\ pull_result.success = TRUE
    /\ pull_result.workflows_found = 2
    /\ pull_calls # <<>>

\* C13: a pull without dry_run whose N files all validated calls the import
\* collaborator exactly once, with the N definitions and the commit_sha asked
\* for, and returns the PullResult of the collaborator as it is
\* (workflows_imported = N when the collaborator reports success).
ImportOnceVerbatim ==
    (pull_pc \in {"except", "done"} /\ parsed.status = "returned"
        /\ parsed.diagnostics = <<>> /\ ~pull_options.dry_run) =>
        /\ Cardinality(ImportCalls) = 1
        /\ \A i \in ImportCalls :
              /\ pull_calls[i].remote_workflows = [k \in 1..Len(repo_content) |-> k]
              /\ pull_calls[i].commit_sha = pull_options.commit_sha
              /\ pull_calls[i].commit_sha = "sha1"
        /\ (pull_pc = "done" /\ pull_exc = None) =>
              /\ pull_result = import_result
              /\ import_result.success =>
                    pull_result.workflows_imported = Len(repo_content)

ImportOnceWitness ==
    /\ pull_pc = "done"
    /\ ~pull_options.dry_run
    /\ Len(repo_content) = 2
    /\ Cardinality(ImportCalls) = 1
    /\ pull_result.success = TRUE
    /\ pull_result.workflows_imported = 2

\* C15: a fetch that finds no directory workflows/ at the commit (the
\* provider answers 404 to its listing) returns an empty mapping and raises
\* nothing, with either adapter; pull goes on with no file and no diagnostic,
\* to the dry-run report or to the import of no definition.
EmptyWithoutWorkflowsDirectory ==
    (remote.client = "ok" /\ remote.repo = 200 /\ remote.workflows = 404) =>
        /\ fetched.status = "returned"
        /\ fetched.content_map = <<>>
        /\ repo_content = <<>>
        /\ pull_exc # None => ImportCalls # {}
        /\ parsed.status # "none" =>
              /\ parsed.status = "returned"
              /\ parsed.remote_workflows = <<>>
              /\ parsed.diagnostics = <<>>
        /\ (pull_pc = "done" /\ pull_exc = None) =>
              /\ pull_result.workflows_found = 0
              /\ pull_options.dry_run =>
                    pull_result.success /\ pull_result.diagnostics = <<>>
              /\ ~pull_options.dry_run =>
                    \E i \in ImportCalls : pull_calls[i].remote_workflows = <<>>

NoWorkflowsDirectoryWitness ==
    /\ pull_pc = "done"
    /\ pull_provider = GITLAB
    /\ remote.workflows = 404
    /\ fetched.status = "returned"
    /\ pull_result.success = TRUE
    /\ pull_result.workflows_found = 0

\* C16: a fetch that lists workflows/ returns, without raising, the mapping of
\* the definition.yml of exactly the directories whose file could be read,
\* in the order of the listing; a directory without the file is passed over,
\* and every other failure on a file is logged.
FetchSkipsUnreadableFiles ==
    (fetched.status # "none" /\ remote.client = "ok" /\ remote.repo = 200
        /\ remote.workflows = 200 /\ remote.is_dir) =>
        LET items == remote.items
            dirs == {i \in DOMAIN items : items[i].type = "dir"}
            read == {i \in dirs : items[i].definition = "ok"}
            failed == {i \in dirs : items[i].definition \in {"error", "undecodable"}}
        IN /\ fetched.status = "returned"
           /\ Len(fetched.paths) = Cardinality(read)
           /\ \A k \in DOMAIN fetched.paths :
                 /\ fetched.paths[k] \in read
                 /\ fetched.content_map[k] = items[fetched.paths[k]].file
                 /\ \A j \in DOMAIN fetched.paths :
                       j < k => fetched.paths[j] < fetched.paths[k]
           /\ fetched.warnings = Cardinality(failed)

(***************************************************************************)
(* Properties of push.                                                     *)
(***************************************************************************)
SyncBranch == "tracecat-sync/wf1"

\* C5: a push that returns a CommitInfo has written its payload (the file on
\* the branch holds it, or the payload of a later push), and a push whose file
\* write failed with anything but 'not found' raises the provider's error.
PushReturnsOnlyAfterFileWrite ==
    \A p \in Callers :
        /\ push[p].outcome = "returned" =>
              /\ push[p].wrote
              /\ files[SyncBranch].content \in push[p].payload..pushes
        /\ (push[p].pc = "done" /\ push[p].write_error # 0) =>
              /\ push[p].outcome = "raised"
              /\ push[p].exc \in {GitHubAppError, GitLabError}

\* C6: pushes for one workflow id, one after the other, create the branch
\* tracecat-sync/<workflow_id> once: a push asks for its creation only while
\* the branch does not exist, a later push finds the branch, and no creation is
\* refused because the branch exists.
BranchCreatedOnce ==
    /\ branch_creations <= 1
    /\ duplicate_branch_errors = 0
    /\ \A p \in Callers :
          /\ push[p].pc = "create_branch" => branches[SyncBranch] = 0
          /\ push[p].pc \in {"get_file", "update_file", "create_file", "tip"} =>
                branches[SyncBranch] # 0

BranchReusedWitness ==
    /\ pushes >= 2
    /\ branch_creations = 1
    /\ push[1].pc = "get_file"
    /\ ~push[1].created_branch

\* C7: with pushes one after the other, at most one open request from
\* tracecat-sync/<workflow_id> into any one base branch exists, and a push is
\* about to create a request only when no such request is open.
AtMostOneOpenRequest ==
    /\ \A a, b \in pull_requests :
          (a.head = b.head /\ a.base = b.base) => a = b
    /\ \A p \in Callers :
          push[p].pc \in {"workspace", "create_pr"} =>
              ~\E pr \in pull_requests :
                  pr.head = SyncBranch /\ pr.base = push[p].base_branch_name

OpenRequestKeptWitness ==
    /\ pushes >= 2
    /\ push[1].outcome = "returned"
    /\ push[1].create_pr
    /\ push[1].pr_url # 0
    /\ ~push[1].created_pr
    /\ Cardinality(pull_requests) = 1

PushRejectsNotOneObject ==
    \A p \in Callers :
        push[p].objects # 1 =>
            /\ push[p].pc = "done"
            /\ push[p].outcome = "raised"
            /\ push[p].exc = "ValueError"
            /\ ~push[p].detected
            /\ push[p].client = None
            /\ push[p].calls = 0

NotOneObjectWitness ==
    /\ push[1].pc = "done"
    /\ push[1].objects = 0
    /\ push[1].exc = "ValueError"
    /\ push[1].calls = 0

\* C10: once the file is written and the tip of the branch is read, no failure
\* of the search for or the creation of the request fails the push: it
\* returns the CommitInfo of the branch.
RequestFailureDoesNotFailPush ==
    \A p \in Callers :
        (push[p].pc = "done" /\ push[p].wrote /\ push[p].commit_sha # 0) =>
            /\ push[p].outcome = "returned"
            /\ push[p].result = CommitInfo(push[p].commit_sha, SyncBranch)

(***************************************************************************)
(* Properties of provider detection.                                       *)
(***************************************************************************)
\* C11, as claimed: every entry point called with a host that contains
\* 'github' (in any case) calls the GitHub adapter, with a host that contains
\* 'gitlab' the GitLab adapter, and with any other host the GitLab adapter
\* after one warning.
DetectionBySubstring ==
    \A op \in EntryPoints :
        dispatched[op].adapter # None =>
            /\ Contains(Lower(url_host), github) => dispatched[op].adapter = GITHUB
            /\ Contains(Lower(url_host), gitlab) => dispatched[op].adapter = GITLAB
            /\ (~Contains(Lower(url_host), github)
                  /\ ~Contains(Lower(url_host), gitlab)) =>
                   /\ dispatched[op].adapter = GITLAB
                   /\ dispatched[op].warnings = 1

\* C11, amended: 'github' is looked for first.  A host that contains 'github'
\* (in any case) goes to the GitHub adapter, a host that contains 'gitlab'
\* and not 'github' to the GitLab adapter, both without a warning, and any
\* other host to the GitLab adapter with one warning; the three entry points
\* called with one host call the same adapter.
DetectionGithubFirst ==
    /\ \A op \in EntryPoints :
          dispatched[op].adapter # None =>
              /\ Contains(Lower(url_host), github) =>
                     /\ dispatched[op].adapter = GITHUB
                     /\ dispatched[op].warnings = 0
              /\ (Contains(Lower(url_host), gitlab)
                    /\ ~Contains(Lower(url_host), github)) =>
                     /\ dispatched[op].adapter = GITLAB
                     /\ dispatched[op].warnings = 0
              /\ (~Contains(Lower(url_host), github)
                    /\ ~Contains(Lower(url_host), gitlab)) =>
                     /\ dispatched[op].adapter = GITLAB
                     /\ dispatched[op].warnings = 1
    /\ \A op, other \in EntryPoints :
          (dispatched[op].adapter # None /\ dispatched[other].adapter # None) =>
              dispatched[op].adapter = dispatched[other].adapter

\* gitlab.GitHub.com, a host that contains both names, one of them in upper
\* case, has gone to the GitHub adapter from all three entry points.
BothNamesWitness ==
    /\ url_host = <<"g", "i", "t", "l", "a", "b", ".">>
                     \o <<"G", "i", "t", "H", "u", "b">> \o <<".", "c", "o", "m">>
    /\ \A op \in EntryPoints : dispatched[op].adapter = GITHUB

ToUrlRoundTrips ==
    url_result.from = "to_url" =>
        /\ url_result.match.matched
        /\ url_result.parsed.matched
        /\ url_result.parsed.url = git_url

\* C18: the path either regex captures from a URL string it accepts has two
\* segments or more and does not end with ".git".
PathNeverEndsWithDotGit ==
    (url_result.from = "text" /\ url_result.match.matched) =>
        LET path == url_result.match.path
        IN /\ \E i \in DOMAIN path :
                 path[i] = "/" /\ 1 < i /\ i < Len(path)
           /\ ~(Len(path) >= 4
                  /\ SubSeq(path, Len(path) - 3, Len(path)) = DotGit)

SaveIsUpsert ==
    (cred[1].role = "ADMIN" /\ cred[1].op = "save" /\ cred[1].pc = "done") =>
        /\ cred[1].outcome = "returned"
        /\ cred[1].stored = "credentials" => ~cred[1].was_created
        /\ cred[1].stored = "nothing" => cred[1].was_created
        /\ LET found == {s \in secrets : s.name = CREDENTIAL_SECRET_NAME}
           IN \E s \in found : s.readable /\ s.keys = cred[1].args

\* The same, for an organization whose secret, if it holds one, decrypts and
\* validates.
SaveIsUpsertOfReadable ==
    cred[1].stored # "unreadable" => SaveIsUpsert

\* C21: the write of an update_gitlab_credentials call that was given only
\* one of access_token and gitlab_url leaves the stored value of the other
\* field as it was: every secret is still held, with that field unchanged.
UpdateKeepsUnsetField ==
    [][\A c \in Callers :
          (/\ cred[c].op = "update"
           /\ cred[c].pc = "write"
           /\ cred'[c].outcome = "returned")
          => \A s \in secrets :
                \E t \in secrets' :
                   /\ t.id = s.id
                   /\ cred[c].args.access_token = None
                        => t.keys.access_token = s.keys.access_token
                   /\ cred[c].args.gitlab_url = None
                        => t.keys.gitlab_url = s.keys.gitlab_url]_vars

\* An update that was given a token and no URL has returned: the secret holds
\* the new token and the URL of the self-hosted instance it held before.
UpdateTokenOnlyWitness ==
    /\ cred[1].op = "update"
    /\ cred[1].outcome = "returned"
    /\ cred[1].args = [access_token |-> "glpat-2", gitlab_url |-> None]
    /\ cred[1].existing.access_token = "glpat-1"
    /\ \E s \in secrets :
          s.keys = [access_token |-> "glpat-2", gitlab_url |-> "https://gitlab.example"]

\* C22: update_gitlab_credentials, called by an admin while the organization holds no
\* credentials, creates and modifies no secret, and ends by raising the
\* GitLabError that tells the caller to register first.
UpdateWithoutCredentialsFails ==
    (cred[1].role = "ADMIN" /\ cred[1].op = "update" /\ cred[1].stored = "nothing") =>
        /\ secrets = {}
        /\ cred[1].pc = "done" =>
              /\ cred[1].outcome = "raised"
              /\ cred[1].exc = GitLabError
              /\ cred[1].message = RegisterFirst

\* Such an update, given a token and a URL, has ended.
UpdateWithoutCredentialsWitness ==
    /\ cred[1].role = "ADMIN"
    /\ cred[1].op = "update"
    /\ cred[1].stored = "nothing"
    /\ cred[1].args = [access_token |-> "glpat-2", gitlab_url |-> "https://gitlab.example"]
    /\ cred[1].pc = "done"
    /\ cred[1].message = RegisterFirst

\* C23: get_gitlab_credentials_status, whatever the organization holds and
\* whatever another caller does meanwhile, returns; and it returns exists =
\* False unless it retrieved the credentials.
StatusNeverFails ==
    \A c \in Callers :
        (cred[c].op = "status" /\ cred[c].pc = "done") =>
            /\ cred[c].outcome = "returned"
            /\ cred[c].exists => cred[c].existing # NoCredentials

\* The same, for the calls of one caller, no other caller beside it.
StatusNeverFailsAlone ==
    (cred[1].op = "status" /\ cred[2].op = "none") => StatusNeverFails

\* C24: delete_gitlab_credentials, called by an admin while the organization holds no
\* secret of the name, raises a GitLabError.  A delete that returned has left
\* no secret of the name, and the caller's next call fails if it is
\* get_gitlab_credentials (with a GitLabError) or a second delete (with a
\* GitLabError), and returns exists = False if it is the status.
DeleteLeavesNothing ==
    LET r == cred[1]
        failed == r.outcome = "raised" /\ r.exc = GitLabError
    IN /\ (r.role = "ADMIN" /\ r.op = "delete" /\ r.stored = "nothing" /\ r.pc = "done")
             => failed
       /\ (r.op = "delete" /\ r.outcome = "returned") =>
             {s \in secrets : s.name = CREDENTIAL_SECRET_NAME} = {}
       /\ (r.after_delete /\ r.pc = "done") =>
             /\ (r.op = "get" \/ (r.op = "delete" /\ r.role = "ADMIN")) => failed
             /\ r.op = "status" => r.outcome = "returned" /\ ~r.exists

\* A second delete has followed a delete that returned.
SecondDeleteWitness ==
    /\ cred[1].role = "ADMIN"
    /\ cred[1].op = "delete"
    /\ cred[1].after_delete
    /\ cred[1].pc = "done"
    /\ cred[1].message = DeleteFailed

\* C25: a call of register, update, save or delete by a caller who is no
\* organization admin is over in one step: it is refused, it has read no
\* secret, and the secret store is as it was.
NonAdminRejected ==
    [][\A c \in Callers :
          (/\ cred'[c] # cred[c]
           /\ cred'[c].role # "ADMIN"
           /\ cred'[c].op \in {"register", "update", "save", "delete"})
          => /\ cred'[c].pc = "done"
             /\ cred'[c].outcome = "raised"
             /\ cred'[c].secret = 0
             /\ cred'[c].existing = NoCredentials
             /\ secrets' = secrets
             /\ next_id' = next_id]_vars

\* Each of the four has been refused to a caller beside credentials that are
\* still stored.
NonAdminRejectedWitness ==
    /\ secrets # {}
    /\ \A c \in Callers :
          /\ cred[c].role = "BASIC"
          /\ cred[c].outcome = "raised"
    /\ cred[1].op = "delete"
    /\ cred[2].op = "save"

\* C26: get_gitlab_client_for_repo returns a client or raises a GitLabError,
\* and the GitLabError of a failed authentication has a text of its own.
ClientFailsWithGitLabError ==
    \A c \in Callers :
        (cred[c].op = "client" /\ cred[c].outcome = "raised") =>
            /\ cred[c].exc = GitLabError
            /\ cred[c].message \in {RetrieveFailed, "GitLab authentication failed",
                                    "GitLab API error"}

\* The same, for every end of gl.auth() but an error of the HTTP transport.
ClientFailsWithGitLabErrorOfGitLab ==
    \A c \in Callers :
        (cred[c].op = "client" /\ cred[c].outcome = "raised"
            /\ cred[c].message # "ConnectionError") =>
            cred[c].exc = GitLabError

\* C27: get_gitlab_credentials, when it fails, fails with the GitLabError
\* "Failed to retrieve GitLab credentials", whether the secret is missing or
\* its keys do not decrypt or validate.
GetFailsWithGitLabError ==
    \A c \in Callers :
        (cred[c].op = "get" /\ cred[c].pc = "done") =>
            /\ cred[c].stored = "credentials" => cred[c].outcome = "returned"
            /\ cred[c].outcome = "raised" =>
                  /\ cred[c].exc = GitLabError
                  /\ cred[c].message = RetrieveFailed

\* get_gitlab_credentials has failed on a secret whose keys do not decrypt or
\* validate.
GetUnreadableWitness ==
    /\ cred[1].op = "get"
    /\ cred[1].stored = "unreadable"
    /\ cred[1].outcome = "raised"
    /\ secrets # {}

\* C28: register_credentials, called by an admin while the organization
\* holds a secret of the name, raises a GitLabError.
RegisterExistingRaisesGitLabError ==
    (/\ cred[1].role = "ADMIN"
     /\ cred[1].op = "register"
     /\ cred[1].stored # "nothing"
     /\ cred[1].pc = "done")
    => cred[1].outcome = "raised" /\ cred[1].exc = GitLabError

\* Such a register call fails, and its step leaves the secrets as they were.
RegisterExistingKeepsSecrets ==
    [][(/\ cred[1].op = "register"
        /\ cred[1].pc = "create"
        /\ secrets # {}
        /\ cred'[1].pc = "done")
       => cred'[1].outcome = "raised" /\ secrets' = secrets]_vars

\* C29: when the two pushes of one workflow both found its branch and both
\* returned, the file on the branch holds the payload of the push whose write
\* request was issued last, on either provider.
LastWriterWins ==
    (/\ \A p \in Callers : push[p].outcome = "returned" /\ ~push[p].saw_absent
     /\ \E p \in Callers : push[p].write_no > 0)
    => LET last == CHOOSE p \in Callers : \A q \in Callers :
                        push[q].write_no <= push[p].write_no
       IN files[BranchName(WorkflowId)].content = push[last].payload

\* The same, on GitLab.
LastWriterWinsOnGitLab ==
    repo_provider = GITLAB => LastWriterWins

\* On GitHub both pushes read the file before either wrote it, the second
\* update was refused as stale, and both pushes returned.
StaleUpdateReturned ==
    /\ repo_provider = GITHUB
    /\ \A p \in Callers : push[p].outcome = "returned" /\ push[p].write_no > 0
    /\ \E p \in Callers : push[p].write_error = 409 /\ push[p].write_no = 2

\* C30: when the two pushes of one workflow both found its branch absent and
\* both asked for its creation, at most one creation was accepted; a push
\* whose creation was not accepted has raised the provider's error and has
\* asked for no write of the file; and when a creation was refused because
\* the branch existed, the branch was created exactly once and exists.
RacingCreationsOneBranch ==
    (\A p \in Callers : push[p].saw_absent /\ push[p].pc # "create_branch")
    => /\ branch_creations <= 1
       /\ \A p \in Callers :
             ~push[p].created_branch =>
                /\ push[p].outcome = "raised"
                /\ push[p].exc \in {GitHubAppError, GitLabError}
                /\ ~push[p].wrote
                /\ push[p].write_no = 0
       /\ duplicate_branch_errors > 0 =>
             /\ branch_creations = 1
             /\ branches[BranchName(WorkflowId)] # 0

\* Both pushes found the branch absent; one created it, wrote the file and
\* returned, the other one's creation was refused.
BranchRaceWitness ==
    /\ \A p \in Callers : push[p].saw_absent /\ push[p].pc = "done"
    /\ \E p \in Callers :
          push[p].created_branch /\ push[p].wrote /\ push[p].outcome = "returned"
    /\ \E p \in Callers : push[p].outcome = "raised"
    /\ duplicate_branch_errors = 1

\* C31: a push that returns returns the ref tracecat-sync/<workflow_id>,
\* whatever options.branch and url.ref are, and as sha the tip of that branch:
\* the tip is read once, after the requests of the file write and before the
\* first request about a pull/merge request, and when the call wrote the file
\* the tip is the commit of that write.
PushReturnsSyncBranchTip ==
    \A p \in Callers :
        /\ push[p].commit_sha # 0 =>
              /\ push[p].pc \in {"find_pr", "workspace", "create_pr", "done"}
              /\ push[p].commit_sha = branches["tracecat-sync/" \o WorkflowId]
        /\ push[p].pc \in {"find_pr", "workspace", "create_pr"} =>
              push[p].commit_sha # 0
        /\ push[p].outcome = "returned" =>
              /\ push[p].result.ref = "tracecat-sync/" \o WorkflowId
              /\ push[p].result.sha = push[p].commit_sha
              /\ push[p].result.sha # 0
              /\ push[p].wrote =>
                    /\ files["tracecat-sync/" \o WorkflowId].sha = push[p].result.sha
                    /\ files["tracecat-sync/" \o WorkflowId].content = push[p].payload

\* A push with options.branch and url.ref set wrote the file, opened a
\* request and returned the sync branch and the commit of its write.
PushReturnsSyncBranchTipWitness ==
    /\ push[1].outcome = "returned"
    /\ push[1].branch = "dev"
    /\ push[1].ref = "rel"
    /\ push[1].wrote
    /\ push[1].created_pr
    /\ push[1].result.ref = "tracecat-sync/wf1"
    /\ push[1].result.sha = files["tracecat-sync/wf1"].sha
    /\ push[1].result.sha > 100

\* C32: the base branch of a push is options.branch when set, else the ref of
\* the url when set, else the default branch of the repository; a target
\* branch the push creates starts at the tip of that base branch; and the
\* pull/merge request the push finds or opens is one into that base branch.
BaseBranchResolved ==
    [][LET r == push[1]
           base == IF r.branch # None THEN r.branch
                   ELSE IF r.ref # None THEN r.ref
                   ELSE "main"
           target == "tracecat-sync/" \o WorkflowId
       IN /\ r.base_branch_name \in {None, base}
          /\ (r.pc = "create_branch" /\ push'[1].created_branch) =>
                /\ branches[target] = 0
                /\ branches[base] # 0
                /\ branches'[target] = branches[base]
          /\ r.pc = "create_pr" =>
                \A pr \in pull_requests' \ pull_requests :
                    pr.base = base /\ pr.head = target
          /\ (r.pc = "find_pr" /\ push'[1].pr_url # 0) =>
                \E pr \in pull_requests :
                    /\ pr.id = push'[1].pr_url
                    /\ pr.base = base
                    /\ pr.head = target]_vars

\* A push with options.branch and url.ref both set created the target branch
\* and opened a request into the branch options.branch names.
BaseBranchResolvedWitness ==
    /\ push[1].outcome = "returned"
    /\ push[1].branch = "dev"
    /\ push[1].ref = "rel"
    /\ push[1].created_branch
    /\ push[1].created_pr
    /\ \E pr \in pull_requests :
          pr.id = push[1].pr_url /\ pr.base = "dev" /\ pr.head = "tracecat-sync/wf1"

\* C33: save_gitlab_credentials goes on to register only when the
\* organization holds no credential secret; when the secret is there and its
\* retrieval fails (its keys do not decrypt or validate), the call ends with
\* that failure raised and asks for no registration.
SaveRegistersOnlyWhenAbsent ==
    /\ (cred[1].op = "save" /\ cred[1].pc = "create") =>
          ~\E s \in secrets : s.name = CREDENTIAL_SECRET_NAME
    /\ (cred[1].op = "save" /\ cred[1].role = "ADMIN" /\ cred[1].pc = "done"
        /\ cred[1].stored = "unreadable") =>
          /\ cred[1].outcome = "raised"
          /\ cred[1].exc = GitLabError
          /\ cred[1].message = RetrieveFailed

\* The same, for an organization whose secret, if it holds one, decrypts and
\* validates.
SaveRegistersOnlyWhenAbsentOfReadable ==
    cred[1].stored # "unreadable" => SaveRegistersOnlyWhenAbsent

\* C34: run on the same repository with the same answers, the GitHub and the
\* GitLab push adapter end alike: both return the same CommitInfo or both
\* raise their provider's error, both leave the same repository, and both
\* made the same requests that change it.
AdaptersEquivalent ==
    (\A provider \in VCSProvider : adapter[provider].pc = "done") =>
        LET gh == adapter[GITHUB]
            gl == adapter[GITLAB]
            IsWrite(op) == op \in AdapterWrites
        IN /\ gh.outcome = gl.outcome
           /\ gh.exc = GitHubAppError <=> gl.exc = GitLabError
           /\ gh.exc \notin {GitHubAppError, GitLabError} => gh.exc = gl.exc
           /\ gh.result = gl.result
           /\ gh.target_tip = gl.target_tip
           /\ gh.file = gl.file
           /\ gh.requests = gl.requests
           /\ SelectSeq(gh.steps, IsWrite) = SelectSeq(gl.steps, IsWrite)

\* The same, where the base branch is there and neither its read nor the read
\* or the update of the file is answered with an error.
AdaptersEquivalentElsewhere ==
    (/\ scenario.fault \notin {"base", "get_file", "update_file"}
     /\ scenario.base # "absent")
    => AdaptersEquivalent

\* The base branch is missing and the target branch exists: _push_github has
\* raised, _push_gitlab has written the file and returned.
MissingBaseDiffers ==
    /\ scenario.base = "absent"
    /\ scenario.target = "file"
    /\ scenario.fault = "none"
    /\ adapter[GITHUB].outcome = "raised"
    /\ adapter[GITLAB].outcome = "returned"
    /\ adapter[GITLAB].wrote

\* The update of the file is rejected: _push_github has returned without a
\* write, _push_gitlab has raised.
RejectedUpdateDiffers ==
    /\ scenario.fault = "update_file"
    /\ adapter[GITHUB].outcome = "returned"
    /\ ~adapter[GITHUB].wrote
    /\ adapter[GITLAB].outcome = "raised"

\* C35: the diagnostics the parser returns, and those of the pull that fails
\* on them, stand in the order of the fetched content map: the diagnostic of
\* a file stands before that of every file that comes after it.
DiagnosticsInInputOrder ==
    LET InOrder(diagnostics) ==
            \A i, j \in DOMAIN diagnostics :
                i < j => diagnostics[i].workflow_path < diagnostics[j].workflow_path
    IN /\ parsed.status = "returned" =>
             /\ InOrder(parsed.diagnostics)
             /\ \A i \in DOMAIN parsed.diagnostics :
                   parsed.diagnostics[i].workflow_path \in DOMAIN repo_content
       /\ (pull_pc = "done" /\ parsed.status = "returned"
           /\ parsed.diagnostics # <<>>) =>
             pull_result.diagnostics = parsed.diagnostics

\* A pull of three files, the first unparsable, the second a valid workflow,
\* the third invalid, failed with the diagnostics of the first and the third.
DiagnosticsInInputOrderWitness ==
    /\ pull_pc = "done"
    /\ Len(repo_content) = 3
    /\ repo_content[1] = YamlError
    /\ repo_content[2] = ValidWorkflow
    /\ repo_content[3] = InvalidTitled
    /\ Len(pull_result.diagnostics) = 2
    /\ pull_result.diagnostics[1].workflow_path = 1
    /\ pull_result.diagnostics[1].error_type = "parse"
    /\ pull_result.diagnostics[2].workflow_path = 3
    /\ pull_result.diagnostics[2].error_type = "validation"

\* C36: a pull that ended on an exception of the fetch, the parser or the
\* import returns one diagnostic, whose error_type is 'github' only when the
\* provider is GitHub and the exception a GitHubAppError, 'gitlab' only when
\* the provider is GitLab and the exception a GitLabError, and 'system' for
\* every other exception; workflows_found is 0 and commit_sha is the SHA asked
\* for.
PullErrorTypeByProvider ==
    (pull_pc = "done" /\ pull_exc # None) =>
        /\ ~pull_raised
        /\ Len(pull_result.diagnostics) = 1
        /\ LET type == pull_result.diagnostics[1].error_type
           IN /\ type \in {"github", "gitlab", "system"}
              /\ type = "github" =>
                    pull_provider = GITHUB /\ pull_exc = GitHubAppError
              /\ type = "gitlab" =>
                    pull_provider = GITLAB /\ pull_exc = GitLabError
              /\ pull_exc \notin {GitHubAppError, GitLabError} => type = "system"
        /\ pull_result.success = FALSE
        /\ pull_result.workflows_found = 0
        /\ pull_result.workflows_imported = 0
        /\ pull_result.commit_sha = pull_options.commit_sha
        /\ pull_options.commit_sha = "sha1"

\* A pull from GitLab whose fetch the provider refused.
PullErrorTypeGitlabWitness ==
    /\ pull_pc = "done"
    /\ pull_provider = GITLAB
    /\ pull_exc = GitLabError
    /\ remote.repo = 500
    /\ pull_result.diagnostics[1].error_type = "gitlab"
    /\ pull_result.commit_sha = "sha1"

\* A pull from GitLab whose parser raised: the diagnostic is of type 'system'.
PullErrorTypeSystemReached ==
    /\ pull_pc = "done"
    /\ pull_provider = GITLAB
    /\ pull_exc = OtherException
    /\ repo_content # <<>>
    /\ pull_result.diagnostics[1].error_type = "system"

\* C37: the client a pull, a push or a list_commits on GitLab starts with is
\* made from the credentials the store holds at that time: after an update
\* has ended it holds the updated credentials, after a delete has ended (and
\* whenever the store holds none) the call fails with GitLabError.
ClientReadsStoreAfresh ==
    (cred[1].op = "client" /\ cred[1].pc = "done") =>
        LET found == {s \in secrets : s.name = CREDENTIAL_SECRET_NAME}
        IN /\ cred[1].outcome = "returned" =>
                 \E s \in found : s.readable /\ s.keys = cred[1].result
           /\ (found = {} \/ cred[1].after_delete) =>
                 /\ cred[1].outcome = "raised"
                 /\ cred[1].exc = GitLabError
                 /\ cred[1].message = RetrieveFailed

\* After an update of the token the client holds the new token and the URL
\* stored before.
ClientAfterUpdateWitness ==
    /\ cred[1].op = "client"
    /\ cred[1].outcome = "returned"
    /\ cred_calls = 2
    /\ cred[1].result = [access_token |-> "glpat-2",
                         gitlab_url |-> "https://gitlab.example"]

\* After a delete no client is made.
ClientAfterDeleteReached ==
    /\ cred[1].op = "client"
    /\ cred[1].after_delete
    /\ cred[1].stored = "nothing"
    /\ cred[1].outcome = "raised"
    /\ cred[1].exc = GitLabError

\* C38: a GitHub fetch, push or list_commits that was given a client has
\* closed it exactly once when it has ended, however it ended (the early
\* return of an empty mapping, a return, the provider's error, any other
\* exception), and has closed nothing before; a call that was given no client
\* closes none.
GithubClientClosedOnce ==
    LET closed_once == [client |-> "closed", closes |-> 1]
    IN /\ (pull_provider = GITHUB /\ pull_pc \notin {"idle", "fetch"}) =>
             clients.fetch = IF remote.client = "ok" THEN closed_once ELSE NoClient
       /\ repo_provider = GITHUB =>
             \A p \in Callers :
                 /\ push[p].pc \notin {"idle", "client", "done"} =>
                       push[p].client = "open" /\ push[p].closes = 0
                 /\ (push[p].pc = "done" /\ push[p].calls > 0) =>
                       IF push[p].calls = 1 /\ push[p].outcome = "raised"
                       THEN push[p].client = None /\ push[p].closes = 0
                       ELSE push[p].client = "closed" /\ push[p].closes = 1
       /\ (dispatched["list_commits"].adapter = GITHUB /\ listed.status # "none") =>
             /\ clients.list_commits \in {NoClient, closed_once}
             /\ listed.status = "returned" => clients.list_commits = closed_once

\* A GitHub fetch ended on an exception that is not the provider's (a file
\* that does not decode), and has closed its client.
FetchClosedOnExceptionWitness ==
    /\ pull_provider = GITHUB
    /\ pull_pc = "done"
    /\ remote.client = "ok"
    /\ fetched.status = "raised"
    /\ fetched.exc = OtherException
    /\ clients.fetch = [client |-> "closed", closes |-> 1]

\* A GitHub fetch that found workflows to be no directory returned the empty
\* mapping, and has closed its client.
FetchClosedOnEarlyReturnReached ==
    /\ pull_provider = GITHUB
    /\ remote.client = "ok"
    /\ remote.workflows = 200
    /\ ~remote.is_dir
    /\ fetched.status = "returned"
    /\ clients.fetch.closes = 1

\* A GitHub push ended on the exception of the workspace lookup, and has
\* closed its client.
PushClosedOnExceptionReached ==
    /\ repo_provider = GITHUB
    /\ push[1].outcome = "raised"
    /\ push[1].exc = "TracecatNotFoundError"
    /\ push[1].client = "closed"
    /\ push[1].closes = 1

\* A GitHub list_commits whose read of the commits failed has closed its
\* client.
ListClosedOnErrorReached ==
    /\ dispatched["list_commits"].adapter = GITHUB
    /\ listed.status = "raised"
    /\ clients.list_commits = [client |-> "closed", closes |-> 1]

\* C39: a step of a push leaves every base branch and its files as they were;
\* it moves the branch tracecat-sync/<workflow_id>, or changes the file on
\* it, only by creating the branch while it is absent or by the commit of its
\* own file write; and a push whose branch check or branch creation failed
\* ends there, having asked for no write of the file.
PushWritesOnlySyncBranch ==
    [][LET r == push[1]
           target == "tracecat-sync/" \o WorkflowId
           changed == branches'[target] # branches[target]
                         \/ files'[target] # files[target]
       IN /\ \A b \in BaseBranches :
                branches'[b] = branches[b] /\ files'[b] = files[b]
          /\ changed =>
                \/ /\ r.pc = "create_branch"
                   /\ branches[target] = 0
                   /\ push'[1].created_branch
                \/ /\ r.pc \in {"update_file", "create_file"}
                   /\ push'[1].wrote
                   /\ files'[target].content = r.payload
                   /\ branches'[target] = files'[target].sha
                   /\ commits' = commits + 1
          /\ (r.pc \in {"check_branch", "create_branch"}
              /\ push'[1].outcome = "raised") =>
                /\ push'[1].pc = "done"
                /\ push'[1].write_no = 0
                /\ ~push'[1].wrote
                /\ ~changed
          /\ push'[1].write_no > r.write_no =>
                /\ r.pc \in {"update_file", "create_file"}
                /\ branches[target] # 0]_vars

\* A later push into the base branch dev found the target branch, wrote its
\* file there and left dev and its file as they were.
PushWritesOnlySyncBranchWitness ==
    /\ pushes >= 2
    /\ push[1].outcome = "returned"
    /\ push[1].base_branch_name = "dev"
    /\ ~push[1].created_branch
    /\ push[1].wrote
    /\ files["tracecat-sync/wf1"].content = push[1].payload
    /\ branches["dev"] = 2
    /\ files["dev"] = [content |-> 100, sha |-> 100]

\* A push whose branch creation was refused has ended without a write.
RefusedCreationNoWriteReached ==
    /\ push[1].outcome = "raised"
    /\ push[1].saw_absent
    /\ ~push[1].created_branch
    /\ push[1].write_no = 0
    /\ files["tracecat-sync/wf1"] = NoFile

=============================================================================
